---- MODULE Spec2Model ----
(***************************************************************************)
(* A model of the world simulator's update engine: the climate state       *)
(* machine, the tile resource operations, the per-entity decision/action   *)
(* cycle and the world tick (src/complete.py, with the variants of         *)
(* src/world-simulator.py and src/combined.py where they differ).          *)
(*                                                                         *)
(* Real quantities (energy, hunger, stocks, temperatures, traits, ...)     *)
(* are fixed-point integers in thousandths: 100.0 is 100000, 0.5 is 500.   *)
(* Every value of random.random(), random.gauss() and random.uniform() is  *)
(* drawn from a small named set of multiples of 0.1, so that every product *)
(* the code computes is exact in thousandths.                              *)
(***************************************************************************)
EXTENDS Integers, Sequences, FiniteSets, TLC

VARIABLES
    width,      \* World.width
    height,     \* World.height
    grid,       \* World.grid: <<x, y>> -> Tile (the code's grid[y][x])
    entities,   \* World.entities: the list of Entity records
    time,       \* World.time
    climate,    \* World.climate
    pc,         \* where the current operation stands
    idx,        \* index (from 1) of the next entity of World.update's loop
    gathered,   \* the mapping the last Tile.gather_resources call returned
    tickStart,  \* the grid as it was when the last operation on it began
    log,        \* the entity updates of the current World.update, in order
    calls,      \* how many operations a unit-level specification has applied
    lastOp,     \* the last operation or loop step that completed
    random      \* the shared random source: the values each kind of draw can return

vars == <<width, height, grid, entities, time, climate, pc, idx, gathered,
          tickStart, log, calls, lastOp, random>>

(***************************************************************************)
(* Fixed point and small helpers                                           *)
(***************************************************************************)
\* one unit (1.0) in thousandths
Unit == 1000

Min(a, b) == IF a <= b THEN a ELSE b

Max(a, b) == IF a >= b THEN a ELSE b

Abs(a) == IF a < 0 THEN -a ELSE a

\* a * b for two fixed-point numbers
Mul(a, b) == (a * b) \div Unit

(***************************************************************************)
(* Enumerations                                                            *)
(***************************************************************************)
BiomeType == {"FOREST", "PLAINS", "MOUNTAIN", "DESERT"}

ResourceType == {"FOOD", "WOOD", "STONE", "WATER"}

ActivityType == {"GATHERING", "RESTING", "SOCIALIZING", "BUILDING", "SEEKING_SHELTER"}

\* list(Season): the seasons in declaration order, indexed from 1
Season == <<"SPRING", "SUMMER", "AUTUMN", "WINTER">>

WeatherType == {"CLEAR", "CLOUDY", "RAIN", "STORM", "SNOW", "HEATWAVE"}

\* Optional[ActivityType]'s None
None == "NONE"

(***************************************************************************)
(* The random source.  The code draws from Python's global generator; a    *)
(* run of the model fixes, in the variable random, the finite set of       *)
(* values each kind of draw ranges over:                                   *)
(*   decision     random.random() compared with a probability or a trait   *)
(*   amount       random.random() scaling a gathered or regenerated amount *)
(*   temperature  random.gauss(0, 3), in degrees                           *)
(*   humidity     random.gauss(0, 0.1)                                     *)
(*   wind, precipitation   how far random.uniform(a, b) lies from a to b   *)
(*   duration     random.randint(5, 15)                                    *)
(***************************************************************************)
MinDuration == 5

MaxDuration == 15

\* the widest source: low, middle and high draws everywhere
WideRandom ==
    [decision |-> {0, 500, 900}, amount |-> {0, 500, 900},
     temperature |-> {-11000, 0, 11000}, humidity |-> {0, 200},
     wind |-> {0, 1000}, precipitation |-> {500},
     duration |-> {MinDuration, 7, MaxDuration}]

Uniform(a, b, u) == a + Mul(b - a, u)

(***************************************************************************)
(* WeatherState and Climate (src/complete.py)                              *)
(***************************************************************************)
\* is_dangerous with the bounds themselves counted as dangerous
is_dangerousInclusive(weather) ==
    \/ weather.type \in {"STORM", "HEATWAVE"}
    \/ weather.temperature <= -10000
    \/ weather.temperature >= 40000
    \/ weather.wind_speed >= 20000

is_dangerous(weather) ==
    \/ weather.type \in {"STORM", "HEATWAVE"}
    \/ weather.temperature < -10000
    \/ weather.temperature > 40000
    \/ weather.wind_speed > 20000

base_temperature == 15000

_get_season_modifiers(season) ==
    CASE season = "SPRING" -> [temperature |-> 5000, humidity |-> 600, storm_chance |-> 100]
      [] season = "SUMMER" -> [temperature |-> 15000, humidity |-> 400, storm_chance |-> 150]
      [] season = "AUTUMN" -> [temperature |-> 5000, humidity |-> 700, storm_chance |-> 200]
      [] season = "WINTER" -> [temperature |-> -5000, humidity |-> 500, storm_chance |-> 100]

\* the weather types _generate_weather may choose among (every weight is positive)
WeatherOptions(season, temperature, humidity, stormDraw) ==
    (IF season = "WINTER" /\ temperature < 0 THEN {"SNOW"} ELSE {})
    \cup (IF humidity > 700 THEN {"RAIN"} ELSE {})
    \cup (IF stormDraw < _get_season_modifiers(season).storm_chance THEN {"STORM"} ELSE {})
    \cup (IF temperature > 30000 THEN {"HEATWAVE"} ELSE {})
    \cup {"CLEAR", "CLOUDY"}

WindRange(type) ==
    IF type = "STORM" THEN <<15000, 25000>>
    ELSE IF type \in {"RAIN", "SNOW"} THEN <<5000, 15000>>
    ELSE <<0, 10000>>

PrecipitationRange(type) ==
    IF type = "STORM" THEN <<700, 1000>>
    ELSE IF type \in {"RAIN", "SNOW"} THEN <<400, 800>>
    ELSE <<0, 300>>

\* the WeatherStates _generate_weather returns for given gauss and storm draws
GenerateWith(season, tj, hj, stormDraw) ==
    LET modifiers == _get_season_modifiers(season)
        temperature == base_temperature + modifiers.temperature + tj
        humidity == Min(1000, Max(0, modifiers.humidity + hj))
    IN  { [type |-> wt,
           temperature |-> temperature,
           humidity |-> humidity,
           wind_speed |-> Uniform(WindRange(wt)[1], WindRange(wt)[2], wu),
           precipitation |-> Uniform(PrecipitationRange(wt)[1], PrecipitationRange(wt)[2], pu),
           duration |-> d] :
          wt \in WeatherOptions(season, temperature, humidity, stormDraw),
          wu \in random.wind, pu \in random.precipitation, d \in random.duration }

\* every WeatherState one call of Climate._generate_weather can return
_generate_weather(season) ==
    UNION { GenerateWith(season, tj, hj, sd) :
            tj \in random.temperature, hj \in random.humidity, sd \in random.decision }

\* Climate.__init__: every Climate a construction can yield
ClimateInit ==
    { [day_of_year |-> 0, current_season |-> "SPRING", current_weather |-> w,
       weather_duration |-> 0] : w \in _generate_weather("SPRING") }

\* Climate.update deriving the season from the day before the increment
ClimateUpdateStaleSeason(c) ==
    LET day == (c.day_of_year + 1) % 360
        season == Season[(c.day_of_year \div 90) + 1]
        wd == c.weather_duration + 1
    IN  IF wd >= c.current_weather.duration
        THEN { [day_of_year |-> day, current_season |-> season, current_weather |-> w,
                weather_duration |-> 0] : w \in _generate_weather(season) }
        ELSE { [day_of_year |-> day, current_season |-> season,
                current_weather |-> c.current_weather, weather_duration |-> wd] }

\* Climate.update counting the days without wrapping them at the end of the year
ClimateUpdateNoWrap(c) ==
    LET day == c.day_of_year + 1
        season == Season[((day % 360) \div 90) + 1]
        wd == c.weather_duration + 1
    IN  IF wd >= c.current_weather.duration
        THEN { [day_of_year |-> day, current_season |-> season, current_weather |-> w,
                weather_duration |-> 0] : w \in _generate_weather(season) }
        ELSE { [day_of_year |-> day, current_season |-> season,
                current_weather |-> c.current_weather, weather_duration |-> wd] }

\* Climate.update resampling one update late: > in place of >=
ClimateUpdateLateResample(c) ==
    LET day == (c.day_of_year + 1) % 360
        season == Season[(day \div 90) + 1]
        wd == c.weather_duration + 1
    IN  IF wd > c.current_weather.duration
        THEN { [day_of_year |-> day, current_season |-> season, current_weather |-> w,
                weather_duration |-> 0] : w \in _generate_weather(season) }
        ELSE { [day_of_year |-> day, current_season |-> season,
                current_weather |-> c.current_weather, weather_duration |-> wd] }

\* Climate.update: every Climate one call can leave behind
ClimateUpdate(c) ==
    LET day == (c.day_of_year + 1) % 360
        new_season == Season[(day \div 90) + 1]
        season == IF new_season # c.current_season THEN new_season ELSE c.current_season
        wd == c.weather_duration + 1
    IN  IF wd >= c.current_weather.duration
        THEN { [day_of_year |-> day, current_season |-> season, current_weather |-> w,
                weather_duration |-> 0] : w \in _generate_weather(season) }
        ELSE { [day_of_year |-> day, current_season |-> season,
                current_weather |-> c.current_weather, weather_duration |-> wd] }

(***************************************************************************)
(* Tile (src/complete.py; src/world-simulator.py has the same tile with    *)
(* the weather and season modifiers fixed at 1.0)                          *)
(***************************************************************************)
\* Tile._initialize_resources: the biome's starting amounts, which are its maxima
_initialize_resources(biome) ==
    [r \in ResourceType |->
        CASE biome = "FOREST" ->
               (CASE r = "WOOD" -> 100000 [] r = "FOOD" -> 50000
                  [] r = "WATER" -> 30000 [] OTHER -> 0)
          [] biome = "PLAINS" ->
               (CASE r = "FOOD" -> 80000 [] r = "WATER" -> 20000 [] OTHER -> 0)
          [] biome = "MOUNTAIN" ->
               (CASE r = "STONE" -> 100000 [] r = "WATER" -> 10000 [] OTHER -> 0)
          [] biome = "DESERT" ->
               (CASE r = "STONE" -> 30000 [] OTHER -> 0)]

\* Tile.__init__
Tile(biome) == [biome |-> biome, resources |-> _initialize_resources(biome)]

\* gather_resources taking the drawn amount without looking at the stock
GatheredAmountUnclamped(draw, weather_modifier, amount) ==
    Mul(draw * 10, weather_modifier)

\* the amount gather_resources takes of one resource with stock amount > 0
GatheredAmount(draw, weather_modifier, amount) ==
    Min(Mul(draw * 10, weather_modifier), amount)

\* Tile.gather_resources with the draws d (one per resource type):
\* the tile left behind and the mapping returned
GatherWith(tile, weather_modifier, d) ==
    LET has == {r \in ResourceType : tile.resources[r] > 0}
        got == [r \in has |-> GatheredAmount(d[r], weather_modifier, tile.resources[r])]
    IN  [tile |-> [tile EXCEPT !.resources =
                      [r \in ResourceType |->
                          IF r \in has THEN tile.resources[r] - got[r]
                          ELSE tile.resources[r]]],
         gathered |-> got]

\* Tile.gather_resources: every outcome of one call
gather_resources(tile, weather_modifier) ==
    { GatherWith(tile, weather_modifier, d) : d \in [ResourceType -> random.amount] }

season_modifiers(season) ==
    CASE season = "SPRING" -> 1200 [] season = "SUMMER" -> 1000
      [] season = "AUTUMN" -> 800 [] season = "WINTER" -> 500

weather_modifiers(type) ==
    CASE type = "CLEAR" -> 1000 [] type = "CLOUDY" -> 900 [] type = "RAIN" -> 1200
      [] type = "STORM" -> 500 [] type = "SNOW" -> 300 [] type = "HEATWAVE" -> 700

\* regenerate_resources putting the drawn amount in place of the stock
RegeneratedAmountReplaces(draw, modifier, current, max_amount) ==
    IF current < max_amount
    THEN Min(max_amount, Mul(draw * 5, modifier))
    ELSE current

\* regenerate_resources adding the drawn amount without the cap at the maximum
RegeneratedAmountUncapped(draw, modifier, current, max_amount) ==
    IF current < max_amount
    THEN current + Mul(draw * 5, modifier)
    ELSE current

\* the new stock of one resource after regenerate_resources
RegeneratedAmount(draw, modifier, current, max_amount) ==
    IF current < max_amount
    THEN Min(max_amount, current + Mul(draw * 5, modifier))
    ELSE current

\* Tile.regenerate_resources: every tile one call can leave behind
regenerate_resources(tile, weatherType, season) ==
    LET base_resources == _initialize_resources(tile.biome)
        modifier == Mul(season_modifiers(season), weather_modifiers(weatherType))
    IN  { [tile EXCEPT !.resources =
              [r \in ResourceType |->
                  RegeneratedAmount(d[r], modifier, tile.resources[r], base_resources[r])]] :
          d \in [ResourceType -> random.amount] }

(***************************************************************************)
(* Position, Personality, Entity (src/complete.py)                         *)
(***************************************************************************)
\* the square of Position.distance_to
DistanceSquared(p, q) == (p.x - q.x) * (p.x - q.x) + (p.y - q.y) * (p.y - q.y)

\* Personality.random(): each trait is one random.random(); curiosity is never read
Personalities(traits) ==
    { [sociability |-> s, industriousness |-> i, curiosity |-> 500, caution |-> c] :
      s \in traits, i \in traits, c \in traits }

\* Entity.__init__
Entity(name, position, personality) ==
    [name |-> name, position |-> position, personality |-> personality,
     energy |-> 100000, hunger |-> 0, social_need |-> 0, temperature |-> 37000,
     inventory |-> [r \in ResourceType |-> 0],
     relationships |-> <<>>,
     current_activity |-> None, has_shelter |-> FALSE]

\* dict.get(key, 0) on a relationships mapping
RelationshipOf(rel, name) == IF name \in DOMAIN rel THEN rel[name] ELSE 0

\* rel[name] = value, adding the key when it is new
SetRelationship(rel, name, value) ==
    [n \in (DOMAIN rel) \cup {name} |-> IF n = name THEN value ELSE rel[n]]

\* Entity._handle_weather_effects
_handle_weather_effects(e, weather) ==
    LET temp_difference == weather.temperature - 20000
        e1 == [e EXCEPT !.temperature = 37000 + temp_difference \div 10]
        e2 == IF Abs(temp_difference) > 10000
              THEN [e1 EXCEPT !.energy = @ - Abs(temp_difference) \div 10]
              ELSE e1
    IN  IF weather.type = "STORM" THEN [e2 EXCEPT !.energy = @ - 2000]
        ELSE IF weather.type = "SNOW" THEN [e2 EXCEPT !.energy = @ - 1500]
        ELSE IF weather.type = "HEATWAVE"
             THEN [e2 EXCEPT !.hunger = @ + 1000, !.energy = @ - 1500]
        ELSE e2

\* the needs decay without the base energy loss
NeedsDecayKeepsEnergy(e) ==
    [e EXCEPT !.hunger = @ + 500,
              !.social_need = @ + e.personality.sociability \div 2]

\* the needs decay wearing the sociability trait down with the energy
NeedsDecayWearsTraits(e) ==
    [e EXCEPT !.energy = @ - 1000,
              !.hunger = @ + 500,
              !.social_need = @ + e.personality.sociability \div 2,
              !.personality.sociability = Max(0, @ - 100)]

\* the needs decay of Entity.update
NeedsDecay(e) ==
    [e EXCEPT !.energy = @ - 1000,
              !.hunger = @ + 500,
              !.social_need = @ + e.personality.sociability \div 2]

\* _choose_activity looking at the hunger before the energy
ChosenActivityHungerFirst(e, weather, cautionDraw, industryDraw) ==
    IF is_dangerous(weather) /\ cautionDraw < e.personality.caution
    THEN "SEEKING_SHELTER"
    ELSE IF e.hunger > 70000 THEN "GATHERING"
    ELSE IF e.energy < 30000 THEN "RESTING"
    ELSE IF e.social_need > 80000 THEN "SOCIALIZING"
    ELSE IF industryDraw < e.personality.industriousness THEN "BUILDING"
    ELSE "GATHERING"

\* Entity._choose_activity with the two draws it may make
ChosenActivity(e, weather, cautionDraw, industryDraw) ==
    IF is_dangerous(weather) /\ cautionDraw < e.personality.caution
    THEN "SEEKING_SHELTER"
    ELSE IF e.energy < 30000 THEN "RESTING"
    ELSE IF e.hunger > 70000 THEN "GATHERING"
    ELSE IF e.social_need > 80000 THEN "SOCIALIZING"
    ELSE IF industryDraw < e.personality.industriousness THEN "BUILDING"
    ELSE "GATHERING"

\* Entity._choose_activity: every entity one call can leave behind
_choose_activity(e, weather) ==
    { [e EXCEPT !.current_activity = ChosenActivity(e, weather, d1, d2)] :
      d1 \in random.decision, d2 \in random.decision }

\* Entity._get_weather_modifier
_get_weather_modifier(weather) ==
    IF is_dangerous(weather) THEN 500
    ELSE IF weather.type \in {"RAIN", "SNOW"} THEN 700
    ELSE IF weather.type = "CLOUDY" THEN 900
    ELSE 1000

\* a compatibility centred on 0: 0.5 - |sociability difference|
_calculate_compatibilityCentred(e, other) ==
    500 - Abs(e.personality.sociability - other.personality.sociability)

\* Entity._calculate_compatibility
_calculate_compatibility(e, other) ==
    1000 - Abs(e.personality.sociability - other.personality.sociability)

\* get_tile without the max(0, ...) around each coordinate
get_tileNoLowerClamp(position, w, h) ==
    <<Min(position.x, w - 1), Min(position.y, h - 1)>>

\* World.get_tile: the grid cell the clamped position selects
get_tile(position, w, h) ==
    <<Max(0, Min(position.x, w - 1)), Max(0, Min(position.y, h - 1))>>

\* get_nearby_entities leaving out the entities at exactly the radius
get_nearby_entitiesStrict(ents, i, radius) ==
    SelectSeq([k \in 1..Len(ents) |-> k],
              LAMBDA j : j # i /\ DistanceSquared(ents[i].position, ents[j].position)
                                     < radius * radius)

\* World.get_nearby_entities: the indices, in list order, of the entities it returns
get_nearby_entities(ents, i, radius) ==
    SelectSeq([k \in 1..Len(ents) |-> k],
              LAMBDA j : j # i /\ DistanceSquared(ents[i].position, ents[j].position)
                                     <= radius * radius)

\* the SOCIALIZING branch proceeding whatever the weather
MaySocializeAlways(e, weather) == TRUE

\* the condition under which the SOCIALIZING branch of _perform_activity proceeds
MaySocialize(e, weather) == ~is_dangerous(weather) \/ e.has_shelter

\* the RESTING branch with the two rest steps exchanged
RestStepsExchanged(e, weather_modifier) ==
    IF e.has_shelter
    THEN [e EXCEPT !.energy = Min(100000, @ + Mul(5000, weather_modifier))]
    ELSE [e EXCEPT !.energy = Min(100000, @ + Mul(10000, weather_modifier))]

\* the RESTING branch of _perform_activity
Rest(e, weather_modifier) ==
    IF e.has_shelter
    THEN [e EXCEPT !.energy = Min(100000, @ + Mul(10000, weather_modifier))]
    ELSE [e EXCEPT !.energy = Min(100000, @ + Mul(5000, weather_modifier))]

\* the merge loop without the floor on the hunger
MergeGatheredNoFloor(e, got) ==
    [e EXCEPT !.inventory = [r \in ResourceType |->
                                 IF r \in DOMAIN got THEN @[r] + got[r] ELSE @[r]],
              !.hunger = IF "FOOD" \in DOMAIN got THEN @ - got["FOOD"] * 10
                         ELSE @]

\* the merge loop with the gathered FOOD eaten instead of stored
MergeGatheredFoodEaten(e, got) ==
    [e EXCEPT !.inventory = [r \in ResourceType |->
                                 IF r \in DOMAIN got /\ r # "FOOD" THEN @[r] + got[r]
                                 ELSE @[r]],
              !.hunger = IF "FOOD" \in DOMAIN got THEN Max(0, @ - got["FOOD"] * 10)
                         ELSE @]

\* the merge loop of the GATHERING branch
MergeGathered(e, got) ==
    [e EXCEPT !.inventory = [r \in ResourceType |->
                                 IF r \in DOMAIN got THEN @[r] + got[r] ELSE @[r]],
              !.hunger = IF "FOOD" \in DOMAIN got THEN Max(0, @ - got["FOOD"] * 10)
                         ELSE @]

\* the SOCIALIZING loop with the social need lowered once per call instead of
\* once per partner
SocializeNeedOnce(e, ents, partners, weather_modifier) ==
    LET gains == [j \in 1..Len(partners) |->
                     Mul(Mul(_calculate_compatibility(e, ents[partners[j]]), 100),
                         weather_modifier)]
    IN  IF partners = <<>> THEN e
        ELSE [e EXCEPT !.relationships =
                           [n \in (DOMAIN @) \cup { ents[partners[j]].name :
                                                      j \in 1..Len(partners) } |->
                               RelationshipOf(@, n)
                               + (IF \E j \in 1..Len(partners) : ents[partners[j]].name = n
                                  THEN gains[CHOOSE j \in 1..Len(partners) :
                                                ents[partners[j]].name = n]
                                  ELSE 0)],
                       !.social_need = Max(0, @ - 10000)]

\* the loop body of the SOCIALIZING branch, for the partners in list order
RECURSIVE Socialize(_, _, _, _)
Socialize(e, ents, partners, weather_modifier) ==
    IF partners = <<>> THEN e
    ELSE LET other == ents[Head(partners)]
             relationship_change ==
                 Mul(Mul(_calculate_compatibility(e, other), 100), weather_modifier)
             e1 == [e EXCEPT !.relationships =
                        SetRelationship(@, other.name,
                            RelationshipOf(@, other.name) + relationship_change),
                             !.social_need = Max(0, @ - 10000)]
         IN  Socialize(e1, ents, Tail(partners), weather_modifier)

\* the SEEKING_SHELTER branch taking the shelter and leaving the WOOD
SeekShelterUnpaid(e) ==
    IF ~e.has_shelter /\ e.inventory["WOOD"] >= 10000
    THEN [e EXCEPT !.has_shelter = TRUE]
    ELSE e

\* the SEEKING_SHELTER branch of _perform_activity
SeekShelter(e) ==
    IF ~e.has_shelter /\ e.inventory["WOOD"] >= 10000
    THEN [e EXCEPT !.has_shelter = TRUE, !.inventory["WOOD"] = @ - 10000]
    ELSE e

\* Entity._perform_activity for entity i, already holding its chosen activity:
\* every (entity, grid, returned mapping, exception raised) one call can leave
\* behind.  grid[y][x] of get_tile raises IndexError when the grid has no tile.
_perform_activity(e, i, ents, g, w, h, weather) ==
    LET weather_modifier == _get_weather_modifier(weather)
        none == [entity |-> e, grid |-> g, gathered |-> <<>>, raised |-> None]
    IN  IF e.current_activity = "RESTING"
        THEN { [none EXCEPT !.entity = Rest(e, weather_modifier)] }
        ELSE IF e.current_activity = "GATHERING"
        THEN LET at == get_tile(e.position, w, h)
             IN  IF at \notin DOMAIN g
                 THEN { [none EXCEPT !.raised = "IndexError"] }
                 ELSE { [entity |-> MergeGathered(e, out.gathered),
                         grid |-> [g EXCEPT ![at] = out.tile],
                         gathered |-> out.gathered,
                         raised |-> None] :
                        out \in gather_resources(g[at], weather_modifier) }
        ELSE IF e.current_activity = "SOCIALIZING"
        THEN IF MaySocialize(e, weather)
             THEN { [none EXCEPT !.entity =
                        Socialize(e, ents, get_nearby_entities(ents, i, 3),
                                  weather_modifier)] }
             ELSE { none }
        ELSE IF e.current_activity = "SEEKING_SHELTER"
        THEN { [none EXCEPT !.entity = SeekShelter(e)] }
        ELSE { none }

\* Entity.update for entity i: every outcome of one call
EntityUpdate(i, ents, g, w, h, weather) ==
    LET e1 == _handle_weather_effects(ents[i], weather)
        e2 == NeedsDecay(e1)
    IN  UNION { _perform_activity(e3, i, [ents EXCEPT ![i] = e3], g, w, h, weather) :
                e3 \in _choose_activity(e2, weather) }

(***************************************************************************)
(* World (src/complete.py)                                                 *)
(***************************************************************************)
Positions(w, h) == { <<x, y>> : x \in 0..(w - 1), y \in 0..(h - 1) }

\* World._generate_world: every grid of tiles with biomes among the given ones
_generate_world(w, h, biomes) ==
    { [p \in Positions(w, h) |-> Tile(b[p])] : b \in [Positions(w, h) -> biomes] }

\* the regeneration loop at the end of World.update: every grid it can leave behind
RegenerateAll(g, weatherType, season) ==
    LET results == UNION { regenerate_resources(g[p], weatherType, season) : p \in DOMAIN g }
    IN  { n \in [DOMAIN g -> results] :
          \A p \in DOMAIN g : n[p] \in regenerate_resources(g[p], weatherType, season) }

\* World.__init__ with the arguments in sizes, under the random source rnd
WorldInit(sizes, biomes, rnd) ==
    /\ random = rnd
    /\ \E size \in sizes :
         /\ width = size[1]
         /\ height = size[2]
         /\ grid \in _generate_world(size[1], size[2], biomes)
    /\ entities = <<>>
    /\ time = 0
    /\ climate \in ClimateInit
    /\ pc = "idle"
    /\ idx = 1
    /\ gathered = <<>>
    /\ tickStart = grid
    /\ log = <<>>
    /\ calls = 0
    /\ lastOp = "World.__init__"

\* World.add_entity, during the bootstrap that precedes the first update
add_entity(maxEntities, names, traits) ==
    /\ pc = "idle"
    /\ time = 0
    /\ Len(entities) < maxEntities
    /\ \E p \in Positions(width, height), personality \in Personalities(traits) :
         entities' = Append(entities,
                            Entity(names[Len(entities) + 1], [x |-> p[1], y |-> p[2]],
                                   personality))
    /\ lastOp' = "World.add_entity"
    /\ UNCHANGED <<width, height, grid, time, climate, pc, idx, gathered, tickStart,
                   log, calls, random>>

\* World.update entering the entity loop without having called climate.update()
WorldUpdateBeginClimateLate(maxTime) ==
    /\ pc = "idle"
    /\ time < maxTime
    /\ time' = time + 1
    /\ pc' = "entities"
    /\ idx' = 1
    /\ tickStart' = grid
    /\ log' = <<>>
    /\ lastOp' = "Climate.update"
    /\ UNCHANGED <<width, height, grid, entities, gathered, calls, random, climate>>

\* World.update, up to the entity loop: the tick counter and the climate advance
WorldUpdateBegin(maxTime) ==
    /\ pc = "idle"
    /\ time < maxTime
    /\ time' = time + 1
    /\ climate' \in ClimateUpdate(climate)
    /\ pc' = "entities"
    /\ idx' = 1
    /\ tickStart' = grid
    /\ log' = <<>>
    /\ lastOp' = "Climate.update"
    /\ UNCHANGED <<width, height, grid, entities, gathered, calls, random>>

\* World.update updating each entity against the grid as it was when the tick
\* began: the resources an earlier entity took in this tick are not seen
WorldUpdateEntitySnapshot ==
    /\ pc = "entities"
    /\ idx <= Len(entities)
    /\ \E out \in EntityUpdate(idx, entities, tickStart, width, height,
                                climate.current_weather) :
         /\ entities' = [entities EXCEPT ![idx] = out.entity]
         /\ grid' = out.grid
         /\ gathered' = out.gathered
         /\ log' = Append(log, [entity |-> idx,
                                activity |-> out.entity.current_activity,
                                gathered |-> out.gathered])
         /\ IF out.raised = None
            THEN /\ pc' = pc
                 /\ lastOp' = "Entity.update"
            ELSE /\ pc' = "raised"
                 /\ lastOp' = out.raised
    /\ idx' = idx + 1
    /\ UNCHANGED <<width, height, time, climate, tickStart, calls, random>>

\* World.update: one iteration of the loop over self.entities; an exception
\* raised by the entity's update ends the call
WorldUpdateEntity ==
    /\ pc = "entities"
    /\ idx <= Len(entities)
    /\ \E out \in EntityUpdate(idx, entities, grid, width, height,
                                climate.current_weather) :
         /\ entities' = [entities EXCEPT ![idx] = out.entity]
         /\ grid' = out.grid
         /\ gathered' = out.gathered
         /\ log' = Append(log, [entity |-> idx,
                                activity |-> out.entity.current_activity,
                                gathered |-> out.gathered])
         /\ IF out.raised = None
            THEN /\ pc' = pc
                 /\ lastOp' = "Entity.update"
            ELSE /\ pc' = "raised"
                 /\ lastOp' = out.raised
    /\ idx' = idx + 1
    /\ UNCHANGED <<width, height, time, climate, tickStart, calls, random>>

\* World.update testing the tick counter as it was before the increment
WorldUpdateEndStaleTime ==
    /\ pc = "entities"
    /\ idx > Len(entities)
    /\ IF (time - 1) % 10 = 0
       THEN /\ grid' \in RegenerateAll(grid, climate.current_weather.type,
                                       climate.current_season)
            /\ lastOp' = "Tile.regenerate_resources"
       ELSE /\ grid' = grid
            /\ lastOp' = "World.update"
    /\ pc' = "idle"
    /\ idx' = 1
    /\ gathered' = <<>>
    /\ log' = <<>>
    /\ UNCHANGED <<width, height, entities, time, climate, tickStart, calls, random>>

\* World.update, after the entity loop: the periodic regeneration, and the return
WorldUpdateEnd ==
    /\ pc = "entities"
    /\ idx > Len(entities)
    /\ IF time % 10 = 0
       THEN /\ grid' \in RegenerateAll(grid, climate.current_weather.type,
                                       climate.current_season)
            /\ lastOp' = "Tile.regenerate_resources"
       ELSE /\ grid' = grid
            /\ lastOp' = "World.update"
    /\ pc' = "idle"
    /\ idx' = 1
    /\ gathered' = <<>>
    /\ log' = <<>>
    /\ UNCHANGED <<width, height, entities, time, climate, tickStart, calls, random>>

(***************************************************************************)
(* Specifications                                                          *)
(***************************************************************************)
\* the roster of the demo, in registration order
Names == <<"Alice", "Bob", "Charlie">>

\* the source of the demo world: the mean temperature and humidity of spring with
\* every weather type they allow, one amount per draw, and the duration that makes
\* the weather change on the tick of the first regeneration
TickRandom ==
    [decision |-> {0, 900}, amount |-> {500},
     temperature |-> {0}, humidity |-> {0},
     wind |-> {1000}, precipitation |-> {500},
     duration |-> {10}]

MaxTime == 10

\* the world of the demo, scaled down: a bootstrap, then World.update repeatedly
Init == WorldInit({<<1, 1>>}, {"FOREST", "MOUNTAIN"}, TickRandom)

Next ==
    \/ add_entity(2, Names, {900})
    \/ WorldUpdateBegin(MaxTime)
    \/ WorldUpdateEntity
    \/ WorldUpdateEnd

Spec == Init /\ [][Next]_vars

\* a source of long spells of mild or hot weather, stormy or not
LongRandom ==
    [decision |-> {0, 900}, amount |-> {500},
     temperature |-> {0, 11000}, humidity |-> {0},
     wind |-> {1000}, precipitation |-> {500},
     duration |-> {MaxDuration}]

MaxTimeLong == 25

\* one entity on one tile, followed over several weeks
InitLong == WorldInit({<<1, 1>>}, {"FOREST", "DESERT"}, LongRandom)

NextLong ==
    \/ add_entity(1, Names, {900})
    \/ WorldUpdateBegin(MaxTimeLong)
    \/ WorldUpdateEntity
    \/ WorldUpdateEnd

SpecLong == InitLong /\ [][NextLong]_vars

\* a source with low, middle and high decision draws under mild weather
ChooseRandom ==
    [decision |-> {0, 500, 900}, amount |-> {500},
     temperature |-> {0}, humidity |-> {0},
     wind |-> {1000}, precipitation |-> {500},
     duration |-> {MaxDuration}]

\* entities whose needs lie on either side of the thresholds of _choose_activity
ChooseInputs ==
    { [Entity("Alice", [x |-> 0, y |-> 0],
              [sociability |-> 500, industriousness |-> i, curiosity |-> 500,
               caution |-> c])
          EXCEPT !.energy = en, !.hunger = hu, !.social_need = so] :
      i \in {0, 500}, c \in {0, 500},
      en \in {29000, 30000, 60000}, hu \in {70000, 70500}, so \in {80000, 80250} }

MaxChooseCalls == 1

\* one direct call of Entity._choose_activity on the first entity
ChooseStep ==
    /\ pc = "idle"
    /\ calls < MaxChooseCalls
    /\ \E d1 \in random.decision, d2 \in random.decision :
         /\ entities' = [entities EXCEPT ![1].current_activity =
                            ChosenActivity(entities[1], climate.current_weather, d1, d2)]
         /\ entities'[1] \in _choose_activity(entities[1], climate.current_weather)
         /\ log' = <<[caution_draw |-> d1, industry_draw |-> d2]>>
    /\ calls' = calls + 1
    /\ lastOp' = "Entity._choose_activity"
    /\ UNCHANGED <<width, height, grid, time, climate, pc, idx, gathered, tickStart,
                   random>>

\* _choose_activity as a function of the entity, the weather and the draws
InitChoose ==
    /\ random = ChooseRandom
    /\ width = 1
    /\ height = 1
    /\ grid \in _generate_world(1, 1, {"PLAINS"})
    /\ entities \in { <<e>> : e \in ChooseInputs }
    /\ time = 0
    /\ climate \in ClimateInit
    /\ pc = "idle"
    /\ idx = 1
    /\ gathered = <<>>
    /\ tickStart = grid
    /\ log = <<>>
    /\ calls = 0
    /\ lastOp = "Entity.__init__"

NextChoose == ChooseStep

SpecChoose == InitChoose /\ [][NextChoose]_vars

\* a Climate on its own, updated for ever
ClimateStep ==
    /\ pc = "idle"
    /\ climate' \in ClimateUpdate(climate)
    /\ lastOp' = "Climate.update"
    /\ UNCHANGED <<width, height, grid, entities, time, pc, idx, gathered, tickStart,
                   log, calls, random>>

\* every kind of weather of every season, at the upper end of the wind ranges
ClimateRandom == [WideRandom EXCEPT !.wind = {1000}]

InitClimate == WorldInit({<<0, 0>>}, BiomeType, ClimateRandom)

NextClimate == ClimateStep

SpecClimate == InitClimate /\ [][NextClimate]_vars

\* a source that fixes the weather and varies only the amounts
TileRandom ==
    [decision |-> {900}, amount |-> {0, 900},
     temperature |-> {0}, humidity |-> {0},
     wind |-> {0}, precipitation |-> {500},
     duration |-> {MaxDuration}]

MaxTileCalls == 3

\* the weather modifiers a caller passes to gather_resources
ModifierInputs == {0, 500, 1000}

\* the (weather type, season) pairs a caller passes to regenerate_resources:
\* the largest modifier (1.44), the neutral one (1.0) and the smallest (0.15)
RegenerateInputs == { <<"RAIN", "SPRING">>, <<"CLEAR", "SUMMER">>, <<"SNOW", "WINTER">> }

\* one direct call of Tile.gather_resources on the tile at (0, 0)
TileGather ==
    /\ pc = "idle"
    /\ calls < MaxTileCalls
    /\ \E m \in ModifierInputs :
         \E out \in gather_resources(grid[<<0, 0>>], m) :
            /\ grid' = [grid EXCEPT ![<<0, 0>>] = out.tile]
            /\ gathered' = out.gathered
    /\ calls' = calls + 1
    /\ tickStart' = grid
    /\ lastOp' = "Tile.gather_resources"
    /\ UNCHANGED <<width, height, entities, time, climate, pc, idx, log, random>>

\* one direct call of Tile.regenerate_resources on the tile at (0, 0)
TileRegenerate ==
    /\ pc = "idle"
    /\ calls < MaxTileCalls
    /\ \E c \in RegenerateInputs :
         \E t \in regenerate_resources(grid[<<0, 0>>], c[1], c[2]) :
            grid' = [grid EXCEPT ![<<0, 0>>] = t]
    /\ calls' = calls + 1
    /\ tickStart' = grid
    /\ gathered' = <<>>
    /\ lastOp' = "Tile.regenerate_resources"
    /\ UNCHANGED <<width, height, entities, time, climate, pc, idx, log, random>>

\* one Tile of any biome, gathered from and regenerated in any order
InitTile == WorldInit({<<1, 1>>}, BiomeType, TileRandom)

NextTile ==
    \/ TileGather
    \/ TileRegenerate

SpecTile == InitTile /\ [][NextTile]_vars

(***************************************************************************)
(* The calendar                                                            *)
(***************************************************************************)
\* the season of a day of the year, by its quarter
SeasonOfDay(day) ==
    IF day < 90 THEN "SPRING"
    ELSE IF day < 180 THEN "SUMMER"
    ELSE IF day < 270 THEN "AUTUMN"
    ELSE "WINTER"

CalendarInRange ==
    /\ climate.day_of_year \in 0..359
    /\ climate.current_season = SeasonOfDay(climate.day_of_year)

DayAdvancesByOne ==
    lastOp' = "Climate.update" =>
        climate'.day_of_year = (climate.day_of_year + 1) % 360

\* C1: after any number of Climate.update calls 0 <= day_of_year < 360 and
\* current_season is the season of the quarter day_of_year lies in (initially
\* and across the wrap from day 359 to day 0), and every update advances
\* day_of_year by exactly one modulo 360.
C1_Calendar == [](CalendarInRange) /\ [][DayAdvancesByOne]_vars

\* the year has wrapped: an update has taken day 359 to day 0
C1_Witness ==
    /\ lastOp = "Climate.update"
    /\ climate.day_of_year = 0
    /\ climate.current_season = "SPRING"

(***************************************************************************)
(* Tile stocks                                                             *)
(***************************************************************************)
biome_max(tile, r) == _initialize_resources(tile.biome)[r]

\* C2: for every tile and resource type, after any sequence of
\* gather_resources and regenerate_resources calls, 0 <= stock <= the biome's
\* maximum of that resource (zero for the resources the biome does not have).
C2_StockInRange ==
    \A p \in DOMAIN grid : \A r \in ResourceType :
        /\ grid[p].resources[r] >= 0
        /\ grid[p].resources[r] <= biome_max(grid[p], r)

\* a regeneration has refilled a stock that gathering had lowered, up to its
\* maximum, while a resource the biome lacks stayed at zero
C2_Witness ==
    /\ lastOp = "Tile.regenerate_resources"
    /\ calls >= 2
    /\ \E p \in DOMAIN grid : \E r, z \in ResourceType :
          /\ tickStart[p].resources[r] < biome_max(grid[p], r)
          /\ grid[p].resources[r] = biome_max(grid[p], r)
          /\ biome_max(grid[p], z) = 0
          /\ grid[p].resources[z] = 0

\* C3: every gather_resources call is conservative: for every resource type
\* stock_before = stock_after + gathered amount with 0 <= gathered <=
\* stock_before, and a resource whose stock is 0 is absent from the returned
\* mapping and keeps stock 0.
C3_GatherConservative ==
    lastOp = "Tile.gather_resources" =>
        \A p \in DOMAIN grid : \A r \in ResourceType :
            IF tickStart[p].resources[r] > 0
            THEN /\ r \in DOMAIN gathered
                 /\ gathered[r] >= 0
                 /\ gathered[r] <= tickStart[p].resources[r]
                 /\ tickStart[p].resources[r] = grid[p].resources[r] + gathered[r]
            ELSE /\ r \notin DOMAIN gathered
                 /\ grid[p].resources[r] = 0

\* a gather took the whole of a stock smaller than the drawn amount, and a
\* resource with stock 0 was left out of the mapping
C3_Witness ==
    /\ lastOp = "Tile.gather_resources"
    /\ \E p \in DOMAIN grid : \E r, z \in ResourceType :
          /\ tickStart[p].resources[r] > 0
          /\ tickStart[p].resources[r] < 9000
          /\ r \in DOMAIN gathered
          /\ gathered[r] = tickStart[p].resources[r]
          /\ grid[p].resources[r] = 0
          /\ tickStart[p].resources[z] = 0
          /\ z \notin DOMAIN gathered

(***************************************************************************)
(* The order of one World.update                                           *)
(***************************************************************************)
\* the three kinds of step of a World.update
TickBegins == pc = "idle" /\ pc' = "entities"

EntityTurn == pc = "entities" /\ pc' = "entities"

TickEnds == pc = "entities" /\ pc' = "idle"

\* the tick counter and the climate advance first, and nothing else changes
BeginAdvancesClock ==
    TickBegins =>
        /\ time' = time + 1
        /\ climate' \in ClimateUpdate(climate)
        /\ climate'.day_of_year = (climate.day_of_year + 1) % 360
        /\ entities' = entities
        /\ grid' = grid

\* the entities take their turns one at a time, in list order, under that climate
TurnsInListOrder ==
    EntityTurn =>
        /\ idx' = idx + 1
        /\ log' = Append(log, log'[Len(log')])
        /\ log'[Len(log')].entity = idx
        /\ time' = time
        /\ climate' = climate
        /\ Len(entities') = Len(entities)
        /\ \A j \in 1..Len(entities) : j # idx => entities'[j] = entities[j]

\* the regeneration comes after every entity's turn and uses the tick's climate
RegenerationLast ==
    TickEnds =>
        /\ Len(log) = Len(entities)
        /\ \A k \in 1..Len(log) : log[k].entity = k
        /\ time' = time
        /\ climate' = climate
        /\ entities' = entities
        /\ lastOp' = "Tile.regenerate_resources" =>
               grid' \in RegenerateAll(grid, climate'.current_weather.type,
                                       climate'.current_season)
        /\ lastOp' # "Tile.regenerate_resources" => grid' = grid

\* C4: within one World.update the tick counter and the climate are advanced
\* before any entity is updated, the entities are then updated one at a time in
\* list order, and the tile regeneration, when it happens, runs after every
\* entity of the tick has been updated, with the weather and season that
\* tick's climate update produced.
C4_UpdateOrder == [][BeginAdvancesClock /\ TurnsInListOrder /\ RegenerationLast]_vars

\* tick 10 of a world of two entities: the weather changed in this tick, both
\* entities were updated, and the tiles were regenerated
C4_Witness ==
    /\ lastOp = "Tile.regenerate_resources"
    /\ Len(entities) = 2
    /\ time = 10
    /\ climate.weather_duration = 0

(***************************************************************************)
(* The regeneration period                                                 *)
(***************************************************************************)
StockNotIncreased ==
    \A p \in DOMAIN grid : \A r \in ResourceType :
        grid'[p].resources[r] <= grid[p].resources[r]

RegeneratesOnTenth ==
    TickEnds =>
        (lastOp' = "Tile.regenerate_resources" <=> (time' > 0 /\ time' % 10 = 0))

NoGrowthOtherwise ==
    (time' % 10 # 0 \/ ~TickEnds) => StockNotIncreased

\* C5: tile regeneration is triggered in a World.update call if and only if the
\* tick counter after the call is a positive multiple of 10; in every other
\* tick no tile's stock of any resource increases.
C5_RegenerationPeriod == [][RegeneratesOnTenth /\ NoGrowthOtherwise]_vars

\* the regeneration of tick 10 has left a stock, which gathering had lowered,
\* higher than it was when the tick began
C5_Witness ==
    /\ lastOp = "Tile.regenerate_resources"
    /\ time = 10
    /\ Len(entities) = 2
    /\ \E p \in DOMAIN grid : \E r \in ResourceType :
          /\ tickStart[p].resources[r] < biome_max(grid[p], r)
          /\ grid[p].resources[r] > tickStart[p].resources[r]

(***************************************************************************)
(* Two gatherers on one tile                                               *)
(***************************************************************************)
\* what entity k of the current tick's log gathered of resource r
LoggedAmount(k, r) == IF r \in DOMAIN log[k].gathered THEN log[k].gathered[r] ELSE 0

\* the tile an entity stands on
TileOf(e) == get_tile(e.position, width, height)

\* C6: when two entities on the same tile both execute GATHERING in the same
\* tick, the later one gathers from the stock the earlier one left: for every
\* resource type the two amounts together do not exceed the tile's stock at the
\* start of the tick, and the stock is never below 0 in between.
C6_SequentialGather ==
    /\ \A p \in DOMAIN grid : \A r \in ResourceType : grid[p].resources[r] >= 0
    /\ \A a, b \in 1..Len(log) :
          ( /\ a < b
            /\ log[a].activity = "GATHERING"
            /\ log[b].activity = "GATHERING"
            /\ TileOf(entities[a]) = TileOf(entities[b]) ) =>
          \A r \in ResourceType :
              /\ LoggedAmount(a, r) + LoggedAmount(b, r)
                     <= tickStart[TileOf(entities[a])].resources[r]
              /\ LoggedAmount(b, r)
                     <= tickStart[TileOf(entities[a])].resources[r] - LoggedAmount(a, r)

\* both gathered in one tick and the second got less than the first because
\* the first had left less than a full draw: together they emptied the stock
C6_Witness ==
    /\ Len(log) = 2
    /\ log[1].activity = "GATHERING"
    /\ log[2].activity = "GATHERING"
    /\ TileOf(entities[1]) = TileOf(entities[2])
    /\ \E r \in ResourceType :
          /\ LoggedAmount(1, r) > 0
          /\ LoggedAmount(2, r) > 0
          /\ LoggedAmount(2, r) < LoggedAmount(1, r)
          /\ LoggedAmount(1, r) + LoggedAmount(2, r)
                 = tickStart[TileOf(entities[1])].resources[r]
          /\ grid[TileOf(entities[1])].resources[r] = 0

(***************************************************************************)
(* Shelter                                                                 *)
(***************************************************************************)
\* the entity whose turn it is lacks shelter, holds the 10 WOOD a shelter costs
\* and executes the activity a
ExecutesWithThreshold(a) ==
    /\ EntityTurn
    /\ entities'[idx].current_activity = a
    /\ ~entities[idx].has_shelter
    /\ entities[idx].inventory["WOOD"] >= 10000

\* it ends the turn sheltered, exactly 10 WOOD poorer
AcquiresShelter ==
    /\ entities'[idx].has_shelter
    /\ entities'[idx].inventory =
           [entities[idx].inventory EXCEPT !["WOOD"] = @ - 10000]

\* C10: an entity that executes BUILDING or SEEKING_SHELTER while it lacks
\* shelter and holds at least the resource threshold (10 WOOD) acquires shelter
\* in that tick and its inventory is reduced by exactly the threshold cost.
C10_BuildOrSeekAcquiresShelter ==
    [][(ExecutesWithThreshold("BUILDING") \/ ExecutesWithThreshold("SEEKING_SHELTER"))
           => AcquiresShelter]_vars

(***************************************************************************)
(* Energy                                                                  *)
(***************************************************************************)
\* C8 as claimed: after any sequence of World.update calls every entity's
\* energy is never negative.
C8_EnergyNeverNegative ==
    \A i \in 1..Len(entities) : entities[i].energy >= 0

\* C8, amended: energy has no lower clamp.  Every Entity.update lowers the
\* energy by at least 1.0, except that a RESTING execution then adds at most
\* 10.0; nothing keeps the result at or above 0.
C8_EnergyDrains ==
    [][EntityTurn =>
          IF entities'[idx].current_activity = "RESTING"
          THEN entities'[idx].energy <= entities[idx].energy - 1000 + 10000
          ELSE entities'[idx].energy <= entities[idx].energy - 1000]_vars

\* an entity that kept seeking shelter through weeks of hot storms has ended an
\* update with negative energy
C8_Witness ==
    /\ lastOp = "Entity.update"
    /\ \E i \in 1..Len(entities) :
          /\ entities[i].energy < 0
          /\ entities[i].current_activity \in {"SEEKING_SHELTER", "RESTING"}

(***************************************************************************)
(* Activity selection                                                      *)
(***************************************************************************)
\* the entity the selection was made for, the weather and the draws
Chooser == entities[1]

SeeksShelter ==
    /\ is_dangerous(climate.current_weather)
    /\ log[1].caution_draw < Chooser.personality.caution

\* C7: activity selection is first-match-wins: SEEKING_SHELTER if the weather
\* is dangerous and the draw is below the caution; otherwise RESTING if energy
\* < 30; otherwise GATHERING if hunger > 70; otherwise SOCIALIZING if social
\* need > 80; otherwise BUILDING if a draw is below the industriousness, else
\* GATHERING.  Under non-dangerous weather energy < 30 always gives RESTING,
\* and SOCIALIZING is selected only when energy >= 30 and hunger <= 70.
C7_FirstMatchWins ==
    lastOp = "Entity._choose_activity" =>
        /\ SeeksShelter => Chooser.current_activity = "SEEKING_SHELTER"
        /\ (~SeeksShelter /\ Chooser.energy < 30000) =>
               Chooser.current_activity = "RESTING"
        /\ (~SeeksShelter /\ Chooser.energy >= 30000 /\ Chooser.hunger > 70000) =>
               Chooser.current_activity = "GATHERING"
        /\ (~SeeksShelter /\ Chooser.energy >= 30000 /\ Chooser.hunger <= 70000
                /\ Chooser.social_need > 80000) =>
               Chooser.current_activity = "SOCIALIZING"
        /\ (~SeeksShelter /\ Chooser.energy >= 30000 /\ Chooser.hunger <= 70000
                /\ Chooser.social_need <= 80000) =>
               Chooser.current_activity =
                   IF log[1].industry_draw < Chooser.personality.industriousness
                   THEN "BUILDING" ELSE "GATHERING"
        /\ (~is_dangerous(climate.current_weather) /\ Chooser.energy < 30000) =>
               Chooser.current_activity = "RESTING"
        /\ Chooser.current_activity = "SOCIALIZING" =>
               (Chooser.energy >= 30000 /\ Chooser.hunger <= 70000)

\* a tired, hungry and lonely entity under safe weather was sent to rest
C7_Witness ==
    /\ lastOp = "Entity._choose_activity"
    /\ ~is_dangerous(climate.current_weather)
    /\ Chooser.energy < 30000
    /\ Chooser.hunger > 70000
    /\ Chooser.social_need > 80000
    /\ Chooser.current_activity = "RESTING"

(***************************************************************************)
(* Bounds of the needs                                                     *)
(***************************************************************************)
\* C9: energy never exceeds 100, and hunger and social need never drop
\* below 0.
C9_NeedsBounded ==
    \A i \in 1..Len(entities) :
        /\ entities[i].energy <= 100000
        /\ entities[i].hunger >= 0
        /\ entities[i].social_need >= 0

\* an entity ate more than its hunger and was left with a hunger of 0
C9_Witness ==
    /\ lastOp = "Entity.update"
    /\ log # <<>>
    /\ LET last == log[Len(log)]
       IN  /\ last.activity = "GATHERING"
           /\ "FOOD" \in DOMAIN last.gathered
           /\ last.gathered["FOOD"] * 10 > 500
           /\ entities[last.entity].hunger = 0

(***************************************************************************)
(* WeatherState and Climate (src/combined.py).  The variables hold the     *)
(* world of src/combined.py in the specifications named ...Combined: its   *)
(* weather has no humidity and no duration, its tiles hold the set of the  *)
(* entities standing on them, its entities hold a shelter (None or a       *)
(* ShelterState) and fixed default traits.  The random source of these     *)
(* specifications has the fields                                           *)
(*   decision         random.random() compared with a probability          *)
(*   weather_choice   the types random.choice(weather_options) may return  *)
(*   temp_variation, wind_variation, precip_variation                      *)
(*                    random.uniform(-5, 5), (-2, 2) and (-0.1, 0.1)       *)
(*   step             random.randint(-1, 1)                                *)
(*   activity         random.uniform(0, total) of choose_activity          *)
(*   stock            random.uniform(0, 100) of a tile's initial resources *)
(***************************************************************************)
\* Climate.__init__ of src/combined.py
ClimateInitCombined ==
    [day_of_year |-> 0, current_season |-> "SPRING",
     current_weather |-> [type |-> "CLEAR", temperature |-> 20000,
                          wind_speed |-> 5000, precipitation |-> 0]]

\* the if/elif chain of Climate.update that derives the season
SeasonOfDayCombined(season_day) ==
    IF season_day < 90 THEN "SPRING"
    ELSE IF season_day < 180 THEN "SUMMER"
    ELSE IF season_day < 270 THEN "AUTUMN"
    ELSE "WINTER"

\* base_temp of Climate.update
BaseTempCombined(season) ==
    CASE season = "SPRING" -> 20000
      [] season = "SUMMER" -> 30000
      [] season = "AUTUMN" -> 15000
      [] season = "WINTER" -> 0

\* weather_options of Climate.update
WeatherOptionsCombined(season) ==
    IF season = "WINTER" THEN WeatherType \ {"HEATWAVE"}
    ELSE IF season = "SUMMER" THEN WeatherType \ {"SNOW"}
    ELSE WeatherType

\* the types Climate.update can leave: a new choice when the draw is below 0.2,
\* the type in force otherwise
WeatherTypesCombined(c, season) ==
    (IF \E d \in random.decision : d < 200
     THEN WeatherOptionsCombined(season) \cap random.weather_choice ELSE {})
    \cup (IF \E d \in random.decision : ~(d < 200) THEN {c.current_weather.type} ELSE {})

\* Climate.update of src/combined.py: every climate one call can leave behind
ClimateUpdateCombined(c) ==
    LET day == (c.day_of_year + 1) % 360
        season == SeasonOfDayCombined(day % 360)
        base_temp == BaseTempCombined(season)
    IN  { [day_of_year |-> day, current_season |-> season,
           current_weather |->
               [type |-> t,
                temperature |-> base_temp + tv,
                wind_speed |-> Max(0, c.current_weather.wind_speed + wv),
                precipitation |-> Max(0, Min(1000, c.current_weather.precipitation + pv))]] :
          t \in WeatherTypesCombined(c, season),
          tv \in random.temp_variation,
          wv \in random.wind_variation,
          pv \in random.precip_variation }

(***************************************************************************)
(* ShelterState, Personality, Entity (src/combined.py)                     *)
(***************************************************************************)
IsDangerousCombined(weather) ==
    \/ weather.temperature < -10000
    \/ weather.temperature > 40000
    \/ weather.wind_speed > 20000
    \/ weather.type \in {"STORM", "HEATWAVE"}

\* Optional[ShelterState]'s None
NoShelter == [absent |-> TRUE]

\* ShelterState(): a new shelter
ShelterState == [durability |-> 100000, quality |-> 1000, last_repair |-> 0]

\* Entity.__init__ of src/combined.py, followed by the caution the caller assigns
EntityCombined(name, position, caution) ==
    [name |-> name, position |-> position,
     personality |-> [caution |-> caution, sociability |-> 500, industriousness |-> 500],
     energy |-> 100000, temperature |-> 20000,
     inventory |-> [r \in ResourceType |-> 0],
     relationships |-> <<>>,
     current_activity |-> None, shelter |-> NoShelter]

\* update_shelter leaving a shelter worn down to nothing in place
update_shelterKeepsRuin(e, weather) ==
    IF e.shelter = NoShelter THEN e
    ELSE LET decay_rate ==
                 100
                 + (IF weather.type \in {"STORM", "SNOW"} THEN 400
                    ELSE IF weather.type = "RAIN" THEN 200 ELSE 0)
                 + Mul(weather.wind_speed, 20)
         IN  [e EXCEPT !.shelter.durability = @ - decay_rate]

\* Entity.update_shelter
update_shelter(e, weather) ==
    IF e.shelter = NoShelter THEN e
    ELSE LET decay_rate ==
                 100
                 + (IF weather.type \in {"STORM", "SNOW"} THEN 400
                    ELSE IF weather.type = "RAIN" THEN 200 ELSE 0)
                 + Mul(weather.wind_speed, 20)
             durability == e.shelter.durability - decay_rate
         IN  IF durability <= 0 THEN [e EXCEPT !.shelter = NoShelter]
             ELSE [e EXCEPT !.shelter.durability = durability]

\* seek_shelter repairing without looking at the WOOD it holds
seek_shelterRepairUnchecked(e, day_of_year) ==
    IF e.shelter = NoShelter
    THEN LET e1 == [e EXCEPT !.current_activity = "SEEKING_SHELTER"]
         IN  IF e1.inventory["WOOD"] >= 5000 /\ e1.inventory["STONE"] >= 3000
             THEN [e1 EXCEPT !.shelter = ShelterState,
                             !.inventory["WOOD"] = @ - 5000,
                             !.inventory["STONE"] = @ - 3000]
             ELSE e1
    ELSE IF e.shelter.durability < 50000
    THEN [e EXCEPT !.inventory["WOOD"] = @ - 2000,
                   !.shelter.durability = Min(100000, @ + 40000),
                   !.shelter.last_repair = day_of_year]
    ELSE e

\* Entity.seek_shelter on the given day of the year
seek_shelter(e, day_of_year) ==
    IF e.shelter = NoShelter
    THEN LET e1 == [e EXCEPT !.current_activity = "SEEKING_SHELTER"]
         IN  IF e1.inventory["WOOD"] >= 5000 /\ e1.inventory["STONE"] >= 3000
             THEN [e1 EXCEPT !.shelter = ShelterState,
                             !.inventory["WOOD"] = @ - 5000,
                             !.inventory["STONE"] = @ - 3000]
             ELSE e1
    ELSE IF e.shelter.durability < 50000 /\ e.inventory["WOOD"] >= 2000
    THEN [e EXCEPT !.inventory["WOOD"] = @ - 2000,
                   !.shelter.durability = Min(100000, @ + 40000),
                   !.shelter.last_repair = day_of_year]
    ELSE e

\* the options of Entity.choose_activity, in list order, with their weights
ActivityOptions(personality) ==
    LET social == personality.sociability > 700
        busy == personality.industriousness > 700
    IN  << <<"GATHERING", IF busy THEN 400 ELSE 300>>,
           <<"BUILDING", IF busy THEN 300 ELSE 200>>,
           <<"EXPLORING", 200>>,
           <<"SOCIALIZING", IF social THEN 400 ELSE 200>>,
           <<"IDLE", 100>> >>

\* the sum of the weights of the first n options
RECURSIVE Cumsum(_, _)
Cumsum(options, n) == IF n = 0 THEN 0 ELSE Cumsum(options, n - 1) + options[n][2]

\* the selection loop of Entity.choose_activity for the draw r = u * total
PickActivity(options, u) ==
    LET r == Mul(Cumsum(options, Len(options)), u)
        first == CHOOSE n \in 1..Len(options) :
                     /\ r <= Cumsum(options, n)
                     /\ \A k \in 1..(n - 1) : r > Cumsum(options, k)
    IN  options[first][1]

\* Entity.choose_activity: every entity one call can leave behind
choose_activity(e, c) ==
    IF IsDangerousCombined(c.current_weather) /\ e.personality.caution > 300
    THEN { seek_shelter(e, c.day_of_year) }
    ELSE { [e EXCEPT !.current_activity = PickActivity(ActivityOptions(e.personality), u)] :
           u \in random.activity }

\* Entity.update drawing the change of activity before it looks at the energy
EntityUpdateCombinedDrawFirst(e, c) ==
    LET weather == c.current_weather
        e1 == update_shelter(e, weather)
        temp_diff == weather.temperature - e1.temperature
        shelter_protection == IF e1.shelter # NoShelter THEN 500 ELSE 1000
        e2 == [e1 EXCEPT !.temperature = @ + Mul(Mul(temp_diff, 100), shelter_protection)]
        e3 == [e2 EXCEPT !.energy = @ - 1000]
        e4 == IF e3.current_activity # None THEN [e3 EXCEPT !.energy = @ - 2000] ELSE e3
        e5 == IF Abs(e4.temperature - 20000) > 10000
              THEN [e4 EXCEPT !.energy = @ - 2000] ELSE e4
    IN  (IF \E d \in random.decision : d < 200 THEN choose_activity(e5, c) ELSE {})
        \cup (IF \E d \in random.decision : ~(d < 200)
              THEN (IF e5.energy < 20000 \/ IsDangerousCombined(weather)
                    THEN { seek_shelter(e5, c.day_of_year) } ELSE {e5})
              ELSE {})

\* Entity.update of src/combined.py: every entity one call can leave behind
EntityUpdateCombined(e, c) ==
    LET weather == c.current_weather
        e1 == update_shelter(e, weather)
        temp_diff == weather.temperature - e1.temperature
        shelter_protection == IF e1.shelter # NoShelter THEN 500 ELSE 1000
        e2 == [e1 EXCEPT !.temperature = @ + Mul(Mul(temp_diff, 100), shelter_protection)]
        e3 == [e2 EXCEPT !.energy = @ - 1000]
        e4 == IF e3.current_activity # None THEN [e3 EXCEPT !.energy = @ - 2000] ELSE e3
        e5 == IF Abs(e4.temperature - 20000) > 10000
              THEN [e4 EXCEPT !.energy = @ - 2000] ELSE e4
    IN  IF e5.energy < 20000 \/ IsDangerousCombined(weather)
        THEN { seek_shelter(e5, c.day_of_year) }
        ELSE (IF \E d \in random.decision : d < 200 THEN choose_activity(e5, c) ELSE {})
             \cup (IF \E d \in random.decision : ~(d < 200) THEN {e5} ELSE {})

(***************************************************************************)
(* Tile and World (src/combined.py).  grid[<<x, y>>] is the code's         *)
(* tiles[x][y]; an entity is identified by its index in World.entities.    *)
(***************************************************************************)
\* World.__init__'s tiles: every grid with stocks among the given draws
TilesCombined(w, h, biomes, stocks) ==
    [Positions(w, h) ->
        { [biome |-> b, resources |-> r, entities |-> {}] :
          b \in biomes, r \in [ResourceType -> stocks] }]

\* World.__init__ of src/combined.py with the arguments in sizes
WorldInitCombined(sizes, biomes, rnd) ==
    /\ random = rnd
    /\ \E size \in sizes :
         /\ width = size[1]
         /\ height = size[2]
         /\ grid \in TilesCombined(size[1], size[2], biomes, rnd.stock)
    /\ entities = <<>>
    /\ time = 0
    /\ climate = ClimateInitCombined
    /\ pc = "idle"
    /\ idx = 1
    /\ gathered = <<>>
    /\ tickStart = grid
    /\ log = <<>>
    /\ calls = 0
    /\ lastOp = "World.__init__"

\* World.add_entity of src/combined.py, during the bootstrap before the first update
add_entity_combined(maxEntities, names, cautions) ==
    /\ pc = "idle"
    /\ calls = 0
    /\ Len(entities) < maxEntities
    /\ \E p \in Positions(width, height), caution \in cautions :
         /\ entities' = Append(entities,
                               EntityCombined(names[Len(entities) + 1],
                                              [x |-> p[1], y |-> p[2]], caution))
         /\ grid' = [grid EXCEPT ![p].entities = @ \cup {Len(entities) + 1}]
    /\ tickStart' = grid'
    /\ lastOp' = "World.add_entity"
    /\ UNCHANGED <<width, height, time, climate, pc, idx, gathered, log, calls, random>>

\* the "Maybe move" step of World.update: the steps drawn, <<>> when none is
MoveSteps ==
    (IF \E d \in random.decision : d < 300
     THEN { <<dx, dy>> : dx \in random.step, dy \in random.step } ELSE {})
    \cup (IF \E d \in random.decision : ~(d < 300) THEN { <<>> } ELSE {})

\* the position after steps of twice the drawn length, clamped to the world
MovedTwice(position, steps, w, h) ==
    IF steps = <<>> THEN position
    ELSE [x |-> Max(0, Min(w - 1, position.x + 2 * steps[1])),
          y |-> Max(0, Min(h - 1, position.y + 2 * steps[2]))]

\* the position after the drawn steps, clamped to the world
Moved(position, steps, w, h) ==
    IF steps = <<>> THEN position
    ELSE [x |-> Max(0, Min(w - 1, position.x + steps[1])),
          y |-> Max(0, Min(h - 1, position.y + steps[2]))]

\* the "Resource gathering" loop of World.update: what it takes from a tile
GatheredCombined(tile) ==
    [r \in { q \in ResourceType : tile.resources[q] > 0 } |->
        Min(5000, tile.resources[r])]

\* the "Social interactions" loop of World.update: every relationships mapping
\* it can leave, for the entities others met on the tile
SocializeCombined(rel, ents, others) ==
    { [n \in (DOMAIN rel) \cup { ents[o].name : o \in others } |->
          RelationshipOf(rel, n)
          + (IF \E o \in others : ents[o].name = n
             THEN Uniform(100, 300, f[CHOOSE o \in others : ents[o].name = n])
             ELSE 0)] :
      f \in [others -> random.affinity] }

\* the iteration putting the entity back into the set of the tile it came from
EntityTurnCombinedStaleTile(i, ents, g, w, h, c) ==
    LET from == <<ents[i].position.x, ents[i].position.y>>
    IN  UNION { UNION {
            LET e2 == [e1 EXCEPT !.position = Moved(@, steps, w, h)]
                to == <<e2.position.x, e2.position.y>>
                got == IF e2.current_activity = "GATHERING"
                       THEN GatheredCombined(g[to]) ELSE <<>>
                g3 == [g EXCEPT ![to].resources =
                          [r \in ResourceType |->
                              IF r \in DOMAIN got THEN @[r] - got[r] ELSE @[r]]]
                e3 == [e2 EXCEPT !.inventory =
                          [r \in ResourceType |->
                              IF r \in DOMAIN got THEN @[r] + got[r] ELSE @[r]]]
                rels == IF e3.current_activity = "SOCIALIZING"
                        THEN SocializeCombined(e3.relationships, ents,
                                               g3[to].entities \ {i})
                        ELSE { e3.relationships }
            IN  { [entity |-> [e3 EXCEPT !.relationships = rel], grid |-> g3,
                   gathered |-> got, steps |-> steps] : rel \in rels }
            : steps \in MoveSteps } : e1 \in EntityUpdateCombined(ents[i], c) }

\* one iteration of the entity loop of World.update for entity i:
\* every (entity, grid, gathered mapping, steps) it can leave behind
EntityTurnCombined(i, ents, g, w, h, c) ==
    LET from == <<ents[i].position.x, ents[i].position.y>>
        g1 == [g EXCEPT ![from].entities = @ \ {i}]
    IN  UNION { UNION {
            LET e2 == [e1 EXCEPT !.position = Moved(@, steps, w, h)]
                to == <<e2.position.x, e2.position.y>>
                g2 == [g1 EXCEPT ![to].entities = @ \cup {i}]
                got == IF e2.current_activity = "GATHERING"
                       THEN GatheredCombined(g2[to]) ELSE <<>>
                g3 == [g2 EXCEPT ![to].resources =
                          [r \in ResourceType |->
                              IF r \in DOMAIN got THEN @[r] - got[r] ELSE @[r]]]
                e3 == [e2 EXCEPT !.inventory =
                          [r \in ResourceType |->
                              IF r \in DOMAIN got THEN @[r] + got[r] ELSE @[r]]]
                rels == IF e3.current_activity = "SOCIALIZING"
                        THEN SocializeCombined(e3.relationships, ents,
                                               g3[to].entities \ {i})
                        ELSE { e3.relationships }
            IN  { [entity |-> [e3 EXCEPT !.relationships = rel], grid |-> g3,
                   gathered |-> got, steps |-> steps] : rel \in rels }
            : steps \in MoveSteps } : e1 \in EntityUpdateCombined(ents[i], c) }

\* World.update of src/combined.py up to the entity loop: the climate advances
WorldUpdateBeginCombined(maxTicks) ==
    /\ pc = "idle"
    /\ calls < maxTicks
    /\ climate' \in ClimateUpdateCombined(climate)
    /\ calls' = calls + 1
    /\ pc' = "entities"
    /\ idx' = 1
    /\ tickStart' = grid
    /\ log' = <<>>
    /\ lastOp' = "Climate.update"
    /\ UNCHANGED <<width, height, grid, entities, time, gathered, random>>

\* World.update of src/combined.py: one iteration of the loop over self.entities
\* set.remove raises KeyError when the entity is not in the set of its tile
WorldUpdateEntityCombined ==
    /\ pc = "entities"
    /\ idx <= Len(entities)
    /\ IF idx \in grid[<<entities[idx].position.x, entities[idx].position.y>>].entities
       THEN /\ \E out \in EntityTurnCombined(idx, entities, grid, width, height, climate) :
                 /\ entities' = [entities EXCEPT ![idx] = out.entity]
                 /\ grid' = out.grid
                 /\ gathered' = out.gathered
                 /\ log' = Append(log, [entity |-> idx,
                                        activity |-> out.entity.current_activity,
                                        gathered |-> out.gathered,
                                        steps |-> out.steps])
            /\ idx' = idx + 1
            /\ lastOp' = "Entity.update"
            /\ UNCHANGED pc
       ELSE /\ pc' = "raised"
            /\ lastOp' = "KeyError"
            /\ UNCHANGED <<entities, grid, gathered, log, idx>>
    /\ UNCHANGED <<width, height, time, climate, tickStart, calls, random>>

\* World.update of src/combined.py: the loop is over and the call returns
WorldUpdateEndCombined ==
    /\ pc = "entities"
    /\ idx > Len(entities)
    /\ pc' = "idle"
    /\ idx' = 1
    /\ gathered' = <<>>
    /\ lastOp' = "World.update"
    /\ UNCHANGED <<width, height, grid, entities, time, climate, tickStart, log,
                   calls, random>>

(***************************************************************************)
(* Specifications of src/combined.py                                       *)
(***************************************************************************)
\* a source with every weather type, a constant temperature and a wind that
\* rises or falls by 2 m/s a day
CombinedClimateRandom ==
    [decision |-> {100, 900}, weather_choice |-> WeatherType,
     temp_variation |-> {0}, wind_variation |-> {-2000, 2000},
     precip_variation |-> {0}, step |-> {0}, activity |-> {0},
     affinity |-> {500}, stock |-> {50000}]

MaxCombinedDays == 95

\* one direct call of Climate.update of src/combined.py
ClimateStepCombined ==
    /\ pc = "idle"
    /\ calls < MaxCombinedDays
    /\ climate' \in ClimateUpdateCombined(climate)
    /\ calls' = calls + 1
    /\ lastOp' = "Climate.update"
    /\ UNCHANGED <<width, height, grid, entities, time, pc, idx, gathered, tickStart,
                   log, random>>

\* the Climate of src/combined.py on its own, from spring into summer
InitClimateCombined == WorldInitCombined({<<0, 0>>}, {"FOREST"}, CombinedClimateRandom)

NextClimateCombined == ClimateStepCombined

SpecClimateCombined == InitClimateCombined /\ [][NextClimateCombined]_vars

\* a source that moves entities in every direction under calm or stormy weather
CombinedRandom ==
    [decision |-> {100, 900}, weather_choice |-> {"CLEAR", "STORM"},
     temp_variation |-> {0}, wind_variation |-> {0},
     precip_variation |-> {0}, step |-> {-1, 0, 1}, activity |-> {0, 800},
     affinity |-> {500}, stock |-> {8000}]

MaxCombinedTicks == 2

\* a 3 x 1 world of src/combined.py with up to two entities
InitCombined == WorldInitCombined({<<3, 1>>}, {"FOREST"}, CombinedRandom)

NextCombined ==
    \/ add_entity_combined(2, Names, {800})
    \/ WorldUpdateBeginCombined(MaxCombinedTicks)
    \/ WorldUpdateEntityCombined
    \/ WorldUpdateEndCombined

SpecCombined == InitCombined /\ [][NextCombined]_vars

\* a source with calm, rainy and stormy days for an entity that stays in place
ShelterRandom ==
    [decision |-> {100, 900}, weather_choice |-> {"CLEAR", "RAIN", "STORM"},
     temp_variation |-> {0}, wind_variation |-> {0},
     precip_variation |-> {0}, step |-> {0}, activity |-> {0, 400},
     affinity |-> {500}, stock |-> {8000}]

\* entities of src/combined.py on either side of the build and repair conditions:
\* new ones without shelter, and old ones (no energy left after months of
\* updates) in a shelter worn down to about 50 or to almost nothing
ShelterInputs ==
    { [EntityCombined("Alice", [x |-> 0, y |-> 0], 800)
          EXCEPT !.energy = en, !.inventory["WOOD"] = wo, !.inventory["STONE"] = st,
                 !.current_activity = a] :
      en \in {100000, 21000}, wo \in {0, 5000}, st \in {0, 3000},
      a \in {None, "GATHERING"} }
    \cup
    { [EntityCombined("Alice", [x |-> 0, y |-> 0], 800)
          EXCEPT !.energy = -150000, !.inventory["WOOD"] = wo,
                 !.current_activity = a,
                 !.shelter = [ShelterState EXCEPT !.durability = du]] :
      wo \in {0, 1000, 2000}, du \in {50200, 300},
      a \in {"SEEKING_SHELTER", "GATHERING"} }

MaxShelterTicks == 3

\* a 1 x 1 world of src/combined.py holding one of these entities
InitShelterCombined ==
    /\ random = ShelterRandom
    /\ width = 1
    /\ height = 1
    /\ entities \in { <<e>> : e \in ShelterInputs }
    /\ grid \in { [g EXCEPT ![<<0, 0>>].entities = {1}] :
                  g \in TilesCombined(1, 1, {"FOREST"}, ShelterRandom.stock) }
    /\ time = 0
    /\ climate = ClimateInitCombined
    /\ pc = "idle"
    /\ idx = 1
    /\ gathered = <<>>
    /\ tickStart = grid
    /\ log = <<>>
    /\ calls = 0
    /\ lastOp = "World.add_entity"

NextShelterCombined ==
    \/ WorldUpdateBeginCombined(MaxShelterTicks)
    \/ WorldUpdateEntityCombined
    \/ WorldUpdateEndCombined

SpecShelterCombined == InitShelterCombined /\ [][NextShelterCombined]_vars

(***************************************************************************)
(* Resource-gated actions                                                  *)
(***************************************************************************)
InventoryNonNegative ==
    \A i \in 1..Len(entities) : \A r \in ResourceType : entities[i].inventory[r] >= 0

\* one iteration of the entity loop of World.update of src/combined.py
EntityTurnOfCombined ==
    /\ pc = "entities"
    /\ idx <= Len(entities)
    /\ idx' = idx + 1

\* the iteration calls seek_shelter: the entity is out of energy or the weather
\* is dangerous
AttemptsShelter ==
    \/ entities'[idx].energy < 20000
    \/ IsDangerousCombined(climate.current_weather)

\* the shelter as update_shelter leaves it at the start of the iteration
DecayedShelter == update_shelter(entities[idx], climate.current_weather).shelter

\* a build attempted without 5 WOOD and 3 STONE changes neither shelter nor inventory
ShortBuildIsNoOp ==
    (/\ AttemptsShelter
     /\ DecayedShelter = NoShelter
     /\ entities[idx].inventory["WOOD"] < 5000 \/ entities[idx].inventory["STONE"] < 3000)
    => /\ entities'[idx].shelter = NoShelter
       /\ entities'[idx].inventory = entities[idx].inventory

\* a repair attempted without 2 WOOD leaves the shelter as the weather left it
\* and takes nothing from the inventory
ShortRepairIsNoOp ==
    (/\ AttemptsShelter
     /\ DecayedShelter # NoShelter
     /\ DecayedShelter.durability < 50000
     /\ entities[idx].inventory["WOOD"] < 2000)
    => /\ entities'[idx].shelter = DecayedShelter
       /\ \A r \in ResourceType :
             entities'[idx].inventory[r] =
                 entities[idx].inventory[r]
                 + (IF r \in DOMAIN gathered' THEN gathered'[r] ELSE 0)

\* C11: resource-gated actions are no-ops on an unmet precondition: a shelter
\* build or repair attempted with less than the required resources leaves the
\* entity's shelter state and inventory unchanged, so every entity's inventory
\* amount of every resource type is >= 0 after any sequence of World.update
\* calls.
C11_ShortfallIsNoOp ==
    /\ [](InventoryNonNegative)
    /\ [][EntityTurnOfCombined => (ShortBuildIsNoOp /\ ShortRepairIsNoOp)]_vars

\* an entity out of energy, in a shelter worn below 50 and with less than 2 WOOD,
\* has gone through an update and holds what it held
C11_Witness ==
    /\ lastOp = "Entity.update"
    /\ entities[1].energy < 20000
    /\ entities[1].shelter # NoShelter
    /\ entities[1].shelter.durability < 50000
    /\ entities[1].inventory["WOOD"] \in {0, 1000}
    /\ entities[1].current_activity = "SEEKING_SHELTER"

(***************************************************************************)
(* Degenerate worlds (src/complete.py)                                     *)
(***************************************************************************)
\* World.add_entity with an entity constructed at one of the given positions:
\* the call appends to the list and never looks at the grid
add_entity_at(maxEntities, names, traits, positions) ==
    /\ pc = "idle"
    /\ time = 0
    /\ Len(entities) < maxEntities
    /\ \E p \in positions, personality \in Personalities(traits) :
         entities' = Append(entities,
                            Entity(names[Len(entities) + 1], [x |-> p[1], y |-> p[2]],
                                   personality))
    /\ lastOp' = "World.add_entity"
    /\ UNCHANGED <<width, height, grid, time, climate, pc, idx, gathered, tickStart,
                   log, calls, random>>

MaxDegenerateTicks == 3

\* World(0, 0), World(0, 2), World(2, 0) and World(1, 1), each with one entity
\* constructed at Position(0, 0)
InitDegenerate ==
    WorldInit({<<0, 0>>, <<0, 2>>, <<2, 0>>, <<1, 1>>}, {"FOREST"}, TickRandom)

NextDegenerate ==
    \/ add_entity_at(1, Names, {0, 900}, {<<0, 0>>})
    \/ WorldUpdateBegin(MaxDegenerateTicks)
    \/ WorldUpdateEntity
    \/ WorldUpdateEnd

SpecDegenerate == InitDegenerate /\ [][NextDegenerate]_vars

\* C12: World.update never raises an error, for any world built with
\* World(width, height) and add_entity and for any number of repeated calls,
\* including a degenerate world constructed with zero width or height that has
\* an entity registered.
C12_UpdateNeverRaises == pc # "raised"

(***************************************************************************)
(* World.get_tile                                                          *)
(***************************************************************************)
MaxGetTileCalls == 1

\* the coordinates a caller passes: from two below the grid to beyond its far edge
CoordinateInputs == -2..4

\* one direct call of World.get_tile; the log keeps the argument and the cell read
GetTileStep ==
    /\ pc = "idle"
    /\ calls < MaxGetTileCalls
    /\ \E x \in CoordinateInputs, y \in CoordinateInputs :
         LET at == get_tile([x |-> x, y |-> y], width, height)
         IN  /\ log' = <<[position |-> [x |-> x, y |-> y], cell |-> at]>>
             /\ IF at \in DOMAIN grid
                THEN pc' = pc /\ lastOp' = "World.get_tile"
                ELSE pc' = "raised" /\ lastOp' = "IndexError"
    /\ calls' = calls + 1
    /\ UNCHANGED <<width, height, grid, entities, time, climate, idx, gathered,
                   tickStart, random>>

\* worlds of one tile, of more columns than rows and of more rows than columns
InitGetTile == WorldInit({<<1, 1>>, <<3, 2>>, <<2, 3>>}, {"FOREST"}, TickRandom)

NextGetTile == GetTileStep

SpecGetTile == InitGetTile /\ [][NextGetTile]_vars

\* clamp(v, lo, hi)
Clamp(v, lo, hi) == IF v < lo THEN lo ELSE IF v > hi THEN hi ELSE v

\* C13: for a world with width >= 1 and height >= 1 and every integer position
\* (negative coordinates and coordinates >= width or height included),
\* get_tile returns the tile at column clamp(x, 0, width - 1) and row
\* clamp(y, 0, height - 1) and never indexes outside the grid.
C13_GetTileClamps ==
    (width >= 1 /\ height >= 1 /\ calls > 0) =>
        /\ lastOp = "World.get_tile"
        /\ log[1].cell[1] = Clamp(log[1].position.x, 0, width - 1)
        /\ log[1].cell[2] = Clamp(log[1].position.y, 0, height - 1)
        /\ log[1].cell[1] \in 0..(width - 1)
        /\ log[1].cell[2] \in 0..(height - 1)

\* a position beyond the last column and before the first row of a 3 x 2 grid
\* was read from the tile at column 2, row 0
C13_Witness ==
    /\ lastOp = "World.get_tile"
    /\ width = 3
    /\ height = 2
    /\ log[1].position = [x |-> 4, y |-> -2]
    /\ log[1].cell = <<2, 0>>

(***************************************************************************)
(* Movement (src/combined.py)                                              *)
(***************************************************************************)
PositionsInBounds ==
    \A i \in 1..Len(entities) :
        /\ entities[i].position.x \in 0..(width - 1)
        /\ entities[i].position.y \in 0..(height - 1)

\* an iteration of the entity loop moves its entity by at most one step in each
\* axis and moves no other entity
MovesOneStep ==
    EntityTurnOfCombined =>
        /\ Abs(entities'[idx].position.x - entities[idx].position.x) <= 1
        /\ Abs(entities'[idx].position.y - entities[idx].position.y) <= 1
        /\ \A j \in 1..Len(entities) :
              j # idx => entities'[j].position = entities[j].position

\* an entity at x = 0 that draws a step to the left stays at x = 0
LeftEdgeHolds ==
    (/\ EntityTurnOfCombined
     /\ entities[idx].position.x = 0
     /\ log'[Len(log')].steps # <<>>
     /\ log'[Len(log')].steps[1] = -1)
    => entities'[idx].position.x = 0

\* C14: with world-level movement, every entity registered at an in-bounds
\* position stays within [0, width-1] x [0, height-1] after any sequence of
\* World.update calls, each tick changes each coordinate by at most 1, and an
\* entity at x = 0 that draws a leftward step stays at x = 0.
C14_MovementInBounds ==
    /\ [](PositionsInBounds)
    /\ [][MovesOneStep /\ LeftEdgeHolds]_vars

\* an entity that began the tick at x = 0 drew a step to the left and is at x = 0
C14_Witness ==
    /\ lastOp = "Entity.update"
    /\ log # <<>>
    /\ LET last == log[Len(log)]
       IN  /\ last.steps # <<>>
           /\ last.steps[1] = -1
           /\ last.entity \in tickStart[<<0, 0>>].entities
           /\ entities[last.entity].position.x = 0

(***************************************************************************)
(* WeatherState.is_dangerous                                               *)
(***************************************************************************)
MaxDangerousCalls == 1

\* weather states on and on either side of the bounds of is_dangerous
WeatherInputs ==
    { [type |-> t, temperature |-> te, humidity |-> 500, wind_speed |-> wi,
       precipitation |-> 0, duration |-> MaxDuration] :
      t \in WeatherType,
      te \in {-10100, -10000, 20000, 40000, 40100},
      wi \in {0, 20000, 20100} }

\* one read of the is_dangerous property, of src/complete.py and of src/combined.py
DangerousStep ==
    /\ pc = "idle"
    /\ calls < MaxDangerousCalls
    /\ log' = <<[complete |-> is_dangerous(climate.current_weather),
                 combined |-> IsDangerousCombined(climate.current_weather)]>>
    /\ calls' = calls + 1
    /\ lastOp' = "WeatherState.is_dangerous"
    /\ UNCHANGED <<width, height, grid, entities, time, climate, pc, idx, gathered,
                   tickStart, random>>

\* a climate whose current weather is one of the inputs
InitDangerous ==
    /\ random = TickRandom
    /\ width = 1
    /\ height = 1
    /\ grid \in _generate_world(1, 1, {"FOREST"})
    /\ entities = <<>>
    /\ time = 0
    /\ climate \in { [c EXCEPT !.current_weather = w] :
                     c \in ClimateInit, w \in WeatherInputs }
    /\ pc = "idle"
    /\ idx = 1
    /\ gathered = <<>>
    /\ tickStart = grid
    /\ log = <<>>
    /\ calls = 0
    /\ lastOp = "World.__init__"

NextDangerous == DangerousStep

SpecDangerous == InitDangerous /\ [][NextDangerous]_vars

\* the weather whose danger was read
Read == climate.current_weather

\* C15: is_dangerous is true exactly when temperature < -10, or temperature >
\* 40, or wind speed > 20, or the type is STORM or HEATWAVE; the comparisons
\* are strict, so temperature = -10, temperature = 40 and wind = 20 with a type
\* outside {STORM, HEATWAVE} give false, and STORM gives true whatever the other
\* fields are.
C15_IsDangerous ==
    lastOp = "WeatherState.is_dangerous" =>
        /\ log[1].complete = log[1].combined
        /\ Read.type = "STORM" => log[1].complete
        /\ Read.type = "HEATWAVE" => log[1].complete
        /\ Read.temperature + 10000 < 0 => log[1].complete
        /\ Read.temperature - 40000 > 0 => log[1].complete
        /\ Read.wind_speed - 20000 > 0 => log[1].complete
        /\ (/\ Read.type \in {"CLEAR", "CLOUDY", "RAIN", "SNOW"}
            /\ Read.temperature \in -10000..40000
            /\ Read.wind_speed \in 0..20000) => ~log[1].complete

\* snow at exactly -10 degrees with a wind of exactly 20 m/s was read as safe
C15_Witness ==
    /\ lastOp = "WeatherState.is_dangerous"
    /\ Read.type = "SNOW"
    /\ Read.temperature = -10000
    /\ Read.wind_speed = 20000
    /\ ~log[1].complete

(***************************************************************************)
(* Season exclusions                                                       *)
(***************************************************************************)
\* C16: in every reachable climate state the weather type respects the season
\* exclusions: the type is never HEATWAVE while the season is WINTER and never
\* SNOW while the season is SUMMER, also on the ticks where the season changes
\* while the previous weather is still in force.
C16_SeasonExclusions ==
    /\ ~(climate.current_weather.type = "HEATWAVE" /\ climate.current_season = "WINTER")
    /\ ~(climate.current_weather.type = "SNOW" /\ climate.current_season = "SUMMER")

(***************************************************************************)
(* Relationships                                                           *)
(***************************************************************************)
\* a source with clear, cloudy, rainy and stormy autumn weather
SocialRandom ==
    [decision |-> {0, 900}, amount |-> {500},
     temperature |-> {0}, humidity |-> {0, 200},
     wind |-> {1000}, precipitation |-> {500},
     duration |-> {MaxDuration}]

\* an entity of src/complete.py half a year into a run
Seasoned(name, x, sociability, social_need, has_shelter) ==
    [Entity(name, [x |-> x, y |-> 0],
            [sociability |-> sociability, industriousness |-> 500,
             curiosity |-> 500, caution |-> 900])
        EXCEPT !.energy = 35000, !.social_need = social_need,
               !.has_shelter = has_shelter]

\* Alice, lonely or nearly so, with Bob next to her or out of reach, and with or
\* without Charlie two tiles away
SocialRosters ==
    LET alices == { Seasoned("Alice", 0, 900, so, sh) :
                    so \in {79500, 92000}, sh \in BOOLEAN }
        bobs == { Seasoned("Bob", x, s, 81000, FALSE) : x \in {1, 4}, s \in {100, 900} }
        charlie == Seasoned("Charlie", 2, 500, 40000, FALSE)
    IN  { <<a, b>> : a \in alices, b \in bobs }
        \cup { <<a, b, charlie>> : a \in alices, b \in bobs }

MaxSocialTicks == 2

\* a 5 x 1 world on day 181, the weather just drawn
InitSocial ==
    /\ random = SocialRandom
    /\ width = 5
    /\ height = 1
    /\ grid \in _generate_world(5, 1, {"FOREST"})
    /\ entities \in SocialRosters
    /\ time = 181
    /\ climate \in { [day_of_year |-> 181, current_season |-> "AUTUMN",
                      current_weather |-> w, weather_duration |-> 0] :
                     w \in _generate_weather("AUTUMN") }
    /\ pc = "idle"
    /\ idx = 1
    /\ gathered = <<>>
    /\ tickStart = grid
    /\ log = <<>>
    /\ calls = 0
    /\ lastOp = "World.update"

NextSocial ==
    \/ WorldUpdateBegin(181 + MaxSocialTicks)
    \/ WorldUpdateEntity
    \/ WorldUpdateEnd

SpecSocial == InitSocial /\ [][NextSocial]_vars

\* no score of entity i is lowered or dropped by the step
ScoresKept(i) ==
    /\ DOMAIN entities[i].relationships \subseteq DOMAIN entities'[i].relationships
    /\ \A n \in DOMAIN entities'[i].relationships :
          entities'[i].relationships[n] >= RelationshipOf(entities[i].relationships, n)

\* C17: a relationship score only ever grows: for every entity and every other
\* entity's name, the score is non-decreasing over any sequence of World.update
\* calls.
C17_RelationshipsGrow ==
    [][\A i \in 1..Len(entities) : ScoresKept(i)]_vars

\* Alice has socialized with the unlike Bob in two ticks running, and her score
\* for him is above what one meeting gives
C17_Witness ==
    /\ lastOp = "Entity.update"
    /\ time = 183
    /\ entities[1].current_activity = "SOCIALIZING"
    /\ entities[2].personality.sociability = 100
    /\ "Bob" \in DOMAIN entities[1].relationships
    /\ entities[1].relationships["Bob"] > 20

(***************************************************************************)
(* Socializing under dangerous weather                                     *)
(***************************************************************************)
\* the entity of this turn executes SOCIALIZING in the open under dangerous weather
SocializesExposed ==
    /\ EntityTurn
    /\ entities'[idx].current_activity = "SOCIALIZING"
    /\ is_dangerous(climate.current_weather)
    /\ ~entities[idx].has_shelter

\* C18: SOCIALIZING proceeds only if the weather is not dangerous or the entity
\* has shelter: an entity that executes SOCIALIZING under dangerous weather
\* without shelter has its relationships unchanged and its social need not
\* reduced in that tick, however many entities are within radius 3.
C18_NoSocializingExposed ==
    [][SocializesExposed =>
          /\ entities'[idx].relationships = entities[idx].relationships
          /\ entities'[idx].social_need >= entities[idx].social_need]_vars

\* Alice, unsheltered in a storm with Bob and Charlie within radius 3, chose to
\* socialize and met nobody
C18_Witness ==
    /\ lastOp = "Entity.update"
    /\ Len(log) = 1
    /\ log[1].activity = "SOCIALIZING"
    /\ climate.current_weather.type = "STORM"
    /\ ~entities[1].has_shelter
    /\ Len(get_nearby_entities(entities, 1, 3)) = 2
    /\ entities[1].relationships = <<>>
    /\ entities[1].social_need > 92000

(***************************************************************************)
(* What World.update leaves alone                                          *)
(***************************************************************************)
\* the entities registered before the step are still there, in the same places
\* of the list, under the same names and with the same traits
RosterKept ==
    /\ Len(entities') >= Len(entities)
    /\ \A i \in 1..Len(entities) :
          /\ entities'[i].name = entities[i].name
          /\ entities'[i].personality = entities[i].personality

\* a step of World.update adds no entity either
UpdateKeepsLength ==
    (TickBegins \/ EntityTurn \/ TickEnds) => Len(entities') = Len(entities)

\* the grid keeps its tiles, each with its biome
BiomesKept ==
    /\ DOMAIN grid' = DOMAIN grid
    /\ \A p \in DOMAIN grid : grid'[p].biome = grid[p].biome

\* C19: personality and identity are read-only and the roster is append-only:
\* no World.update call changes any entity's name or personality traits,
\* removes an entity from the world's entity list, reorders the list, or
\* changes a tile's biome.
C19_IdentityFrame == [][RosterKept /\ UpdateKeepsLength /\ BiomesKept]_vars

\* ten updates of Alice and Bob, the last one with a regeneration, have changed
\* their needs and the tile's stocks
C19_Witness ==
    /\ lastOp = "Tile.regenerate_resources"
    /\ time = 10
    /\ Len(entities) = 2
    /\ entities[1].name = "Alice"
    /\ entities[2].name = "Bob"
    /\ entities[1].energy < 100000
    /\ entities[2].social_need > 0
    /\ \E r \in ResourceType : grid[<<0, 0>>].resources[r] < biome_max(grid[<<0, 0>>], r)

(***************************************************************************)
(* Resting                                                                 *)
(***************************************************************************)
MaxPerformCalls == 1

\* entities about to execute RESTING, with and without shelter, at energies
\* far from and close to the cap
RestInputs ==
    { [Entity("Alice", [x |-> 0, y |-> 0],
              [sociability |-> 500, industriousness |-> 500, curiosity |-> 500,
               caution |-> 500])
          EXCEPT !.energy = en, !.has_shelter = sh, !.current_activity = "RESTING"] :
      en \in {25000, 50000, 96000, 100000}, sh \in BOOLEAN }

\* the weather of every type, mild and calm except for what the type brings
RestWeathers ==
    { [type |-> t, temperature |-> te, humidity |-> 500, wind_speed |-> 10000,
       precipitation |-> 0, duration |-> MaxDuration] :
      t \in WeatherType, te \in {20000, 41000} }

\* one direct call of Entity._perform_activity on the first entity; the log
\* keeps the entity and the list of entities as they were
PerformStep ==
    /\ pc = "idle"
    /\ calls < MaxPerformCalls
    /\ \E out \in _perform_activity(entities[1], 1, entities, grid, width, height,
                                    climate.current_weather) :
         /\ entities' = [entities EXCEPT ![1] = out.entity]
         /\ grid' = out.grid
         /\ gathered' = out.gathered
    /\ log' = <<[before |-> entities[1], roster |-> entities]>>
    /\ calls' = calls + 1
    /\ tickStart' = grid
    /\ lastOp' = "Entity._perform_activity"
    /\ UNCHANGED <<width, height, time, climate, pc, idx, random>>

\* a resting entity on a 1 x 1 world under one of the weathers
InitRest ==
    /\ random = TickRandom
    /\ width = 1
    /\ height = 1
    /\ grid \in _generate_world(1, 1, {"FOREST"})
    /\ entities \in { <<e>> : e \in RestInputs }
    /\ time = 0
    /\ climate \in { [c EXCEPT !.current_weather = w] :
                     c \in ClimateInit, w \in RestWeathers }
    /\ pc = "idle"
    /\ idx = 1
    /\ gathered = <<>>
    /\ tickStart = grid
    /\ log = <<>>
    /\ calls = 0
    /\ lastOp = "Entity._choose_activity"

NextRest == PerformStep

SpecRest == InitRest /\ [][NextRest]_vars

\* the modifier the claim gives for the weather in force, in thousandths
ClaimedModifier ==
    LET w == climate.current_weather
    IN  IF w.type \in {"STORM", "HEATWAVE"} \/ w.temperature > 40000
           \/ w.temperature < -10000 \/ w.wind_speed > 20000
        THEN 500
        ELSE CASE w.type \in {"RAIN", "SNOW"} -> 700
               [] w.type = "CLOUDY" -> 900
               [] OTHER -> 1000

\* C20: a RESTING execution sets energy to min(100, energy + 10 * m) when the
\* entity has shelter and min(100, energy + 5 * m) when it has none, where m is
\* 0.5 for dangerous weather, 0.7 for RAIN or SNOW, 0.9 for CLOUDY and 1.0
\* otherwise; with shelter under non-dangerous CLEAR weather an energy below
\* 100 strictly increases by the rest step (50 becomes 60) and never exceeds 100.
C20_RestingRestores ==
    (lastOp = "Entity._perform_activity" /\ log[1].before.current_activity = "RESTING") =>
        LET before == log[1].before
            after == entities[1]
            gain == (IF before.has_shelter THEN 10 ELSE 5) * ClaimedModifier
        IN  /\ after.energy = (IF before.energy + gain > 100000 THEN 100000
                               ELSE before.energy + gain)
            /\ after.energy <= 100000
            /\ (before.has_shelter /\ ClaimedModifier = 1000 /\ before.energy < 100000) =>
                   after.energy > before.energy
            /\ (before.has_shelter /\ ClaimedModifier = 1000 /\ before.energy = 50000) =>
                   after.energy = 60000
            /\ after = [before EXCEPT !.energy = after.energy]

\* a sheltered entity rested under clear, mild weather and went from 50 to 60
C20_Witness ==
    /\ lastOp = "Entity._perform_activity"
    /\ log[1].before.current_activity = "RESTING"
    /\ log[1].before.has_shelter
    /\ log[1].before.energy = 50000
    /\ climate.current_weather.type = "CLEAR"
    /\ climate.current_weather.temperature = 20000
    /\ entities[1].energy = 60000

(***************************************************************************)
(* Gathering                                                               *)
(***************************************************************************)
\* a source with small, middling and large gathering draws
GatherRandom ==
    [decision |-> {0, 900}, amount |-> {0, 500, 900},
     temperature |-> {0}, humidity |-> {0},
     wind |-> {1000}, precipitation |-> {500},
     duration |-> {10}]

\* Alice about to execute GATHERING on either tile, sated, peckish or starving,
\* with Bob standing on the second tile
GatherRosters ==
    LET traits == [sociability |-> 500, industriousness |-> 500, curiosity |-> 500,
                   caution |-> 500]
        bob == [Entity("Bob", [x |-> 1, y |-> 0], traits)
                   EXCEPT !.inventory["FOOD"] = 3000, !.hunger = 40000]
    IN  { <<[Entity("Alice", [x |-> x, y |-> 0], traits)
                EXCEPT !.hunger = hu, !.inventory["WOOD"] = 4000,
                       !.current_activity = "GATHERING"],
            bob>> : x \in {0, 1}, hu \in {0, 30000, 80000} }

\* a forest tile, full or with little food left, next to a desert tile
GatherGrids ==
    { [g EXCEPT ![<<0, 0>>].resources["FOOD"] = fo] :
      g \in { h \in _generate_world(2, 1, {"FOREST", "DESERT"}) :
                h[<<0, 0>>].biome = "FOREST" /\ h[<<1, 0>>].biome = "DESERT" },
      fo \in {50000, 2000} }

\* a gathering entity on a 2 x 1 world under one of the weathers
InitGather ==
    /\ random = GatherRandom
    /\ width = 2
    /\ height = 1
    /\ grid \in GatherGrids
    /\ entities \in GatherRosters
    /\ time = 0
    /\ climate \in { [c EXCEPT !.current_weather = w] :
                     c \in ClimateInit, w \in RestWeathers }
    /\ pc = "idle"
    /\ idx = 1
    /\ gathered = <<>>
    /\ tickStart = grid
    /\ log = <<>>
    /\ calls = 0
    /\ lastOp = "Entity._choose_activity"

NextGather == PerformStep

SpecGather == InitGather /\ [][NextGather]_vars

\* the call that has just returned was a GATHERING execution
Gathered == lastOp = "Entity._perform_activity" /\ log[1].before.current_activity = "GATHERING"

\* the tile under the entity that gathered
GatherTile == <<log[1].before.position.x, log[1].before.position.y>>

\* what the tile under the entity lost of resource r
Removed(r) == tickStart[GatherTile].resources[r] - grid[GatherTile].resources[r]

\* C21: a GATHERING execution transfers resources without creating or losing
\* any: for every resource type the entity's inventory grows by exactly the
\* amount removed from the tile at its position, so tile stock plus inventory is
\* the same before and after; no other tile and no other entity changes; and
\* hunger decreases by 10 times the FOOD gathered, floored at 0.
C21_GatheringTransfers ==
    Gathered =>
        LET before == log[1].before
            after == entities[1]
        IN  /\ \A r \in ResourceType :
                  /\ Removed(r) >= 0
                  /\ after.inventory[r] - before.inventory[r] = Removed(r)
                  /\ grid[GatherTile].resources[r] + after.inventory[r]
                        = tickStart[GatherTile].resources[r] + before.inventory[r]
            /\ \A p \in DOMAIN grid : p # GatherTile => grid[p] = tickStart[p]
            /\ DOMAIN grid = DOMAIN tickStart
            /\ grid[GatherTile].biome = tickStart[GatherTile].biome
            /\ Len(entities) = Len(log[1].roster)
            /\ \A j \in 2..Len(entities) : entities[j] = log[1].roster[j]
            /\ after.hunger = Max(0, before.hunger - 10 * Removed("FOOD"))
            /\ after = [before EXCEPT !.inventory = after.inventory,
                                      !.hunger = after.hunger]

\* starving Alice took wood, food and water from the forest tile, the food all
\* that was left of it, and is less hungry by ten times the food
C21_Witness ==
    /\ Gathered
    /\ GatherTile = <<0, 0>>
    /\ tickStart[GatherTile].resources["FOOD"] = 2000
    /\ Removed("FOOD") = 2000
    /\ Removed("WOOD") > 0
    /\ Removed("WATER") > 0
    /\ log[1].before.hunger = 80000
    /\ entities[1].hunger = 60000
    /\ entities[1].inventory["WOOD"] = 4000 + Removed("WOOD")

(***************************************************************************)
(* Socializing                                                             *)
(***************************************************************************)
\* Alice about to execute SOCIALIZING at the origin of a 5 x 5 world, barely,
\* fairly or very lonely, with or without shelter and with or without an earlier
\* score for Bob; Bob three tiles away or just beyond, Charlie on her tile or
\* four tiles away, Dave diagonally within reach or in the far corner
SocializeRosters ==
    LET Traits(s) == [sociability |-> s, industriousness |-> 500, curiosity |-> 500,
                      caution |-> 500]
        alices == { [Entity("Alice", [x |-> 0, y |-> 0], Traits(900))
                        EXCEPT !.social_need = so, !.has_shelter = sh,
                               !.relationships = rel,
                               !.current_activity = "SOCIALIZING"] :
                    so \in {5000, 25000, 92000}, sh \in BOOLEAN,
                    rel \in {<<>>, [n \in {"Bob"} |-> 300]} }
        bobs == { [Entity("Bob", [x |-> 3, y |-> y], Traits(100))
                      EXCEPT !.social_need = 81000] : y \in {0, 1} }
        charlies == { Entity("Charlie", [x |-> 0, y |-> y], Traits(500)) : y \in {0, 4} }
        daves == { Entity("Dave", [x |-> x, y |-> x], Traits(900)) : x \in {2, 4} }
    IN  { <<a, b, c, d>> : a \in alices, b \in bobs, c \in charlies, d \in daves }

\* a socializing entity and three others on a 5 x 5 world under one of the weathers
InitSocialize ==
    /\ random = TickRandom
    /\ width = 5
    /\ height = 5
    /\ grid \in _generate_world(5, 5, {"PLAINS"})
    /\ entities \in SocializeRosters
    /\ time = 0
    /\ climate \in { [c EXCEPT !.current_weather = w] :
                     c \in ClimateInit, w \in RestWeathers }
    /\ pc = "idle"
    /\ idx = 1
    /\ gathered = <<>>
    /\ tickStart = grid
    /\ log = <<>>
    /\ calls = 0
    /\ lastOp = "Entity._choose_activity"

NextSocialize == PerformStep

SpecSocialize == InitSocialize /\ [][NextSocialize]_vars

\* the call that has just returned was a SOCIALIZING execution
Socialized ==
    lastOp = "Entity._perform_activity" /\ log[1].before.current_activity = "SOCIALIZING"

\* the other entities within radius 3 of the entity that socialized, if the
\* weather let it meet anybody
Partners ==
    LET before == log[1].before
    IN  IF is_dangerous(climate.current_weather) /\ ~before.has_shelter THEN {}
        ELSE { j \in 2..Len(log[1].roster) :
                 (before.position.x - log[1].roster[j].position.x)
                     * (before.position.x - log[1].roster[j].position.x)
                 + (before.position.y - log[1].roster[j].position.y)
                     * (before.position.y - log[1].roster[j].position.y) <= 9 }

\* C22: a SOCIALIZING execution is self-only: it changes only the acting
\* entity's relationships and social need, adding compatibility * 0.1 *
\* weather_modifier to its score for every other entity within radius 3 and
\* subtracting 10 social need per partner (floored at 0); the partners and
\* everybody else are unchanged, so A's score for B can differ from B's for A.
C22_SocializingSelfOnly ==
    Socialized =>
        LET before == log[1].before
            after == entities[1]
            roster == log[1].roster
            Gain(j) == Mul(Mul(1000 - Abs(before.personality.sociability
                                          - roster[j].personality.sociability), 100),
                           ClaimedModifier)
        IN  /\ \A j \in Partners :
                  RelationshipOf(after.relationships, roster[j].name)
                     = RelationshipOf(before.relationships, roster[j].name) + Gain(j)
            /\ \A n \in DOMAIN after.relationships :
                  (\A j \in Partners : roster[j].name # n) =>
                      /\ n \in DOMAIN before.relationships
                      /\ after.relationships[n] = before.relationships[n]
            /\ DOMAIN before.relationships \subseteq DOMAIN after.relationships
            /\ after.social_need
                  = Max(0, before.social_need - 10000 * Cardinality(Partners))
            /\ after = [before EXCEPT !.relationships = after.relationships,
                                      !.social_need = after.social_need]
            /\ Len(entities) = Len(roster)
            /\ \A j \in 2..Len(entities) : entities[j] = roster[j]
            /\ grid = tickStart

\* Alice met Bob at distance 3, Charlie on her own tile and Dave across the
\* diagonal under clear weather: her score for Bob rose and her need fell by 30,
\* while Bob has no score for her and is as lonely as before
C22_Witness ==
    /\ Socialized
    /\ Partners = {2, 3, 4}
    /\ climate.current_weather.type = "CLEAR"
    /\ climate.current_weather.temperature = 20000
    /\ log[1].before.social_need = 92000
    /\ entities[1].social_need = 62000
    /\ log[1].before.relationships = <<>>
    /\ entities[1].relationships["Bob"] = 20
    /\ entities[1].relationships["Dave"] = 100
    /\ entities[2].relationships = <<>>
    /\ entities[2].social_need = 81000

(***************************************************************************)
(* World.get_nearby_entities                                               *)
(***************************************************************************)
MaxNearbyCalls == 1

\* the radii asked for: the entity's own tile, the radius of SOCIALIZING, and two more
RadiusInputs == {0, 3, 4, 5}

\* one call of World.get_nearby_entities for any entity of the list; the log
\* keeps the arguments and the list returned
NearbyStep ==
    /\ pc = "idle"
    /\ calls < MaxNearbyCalls
    /\ \E i \in 1..Len(entities), radius \in RadiusInputs :
         log' = <<[entity |-> i, radius |-> radius,
                   nearby |-> get_nearby_entities(entities, i, radius)]>>
    /\ calls' = calls + 1
    /\ lastOp' = "World.get_nearby_entities"
    /\ UNCHANGED <<width, height, grid, entities, time, climate, pc, idx, gathered,
                   tickStart, random>>

\* four entities on a 5 x 5 world
InitNearby ==
    /\ random = TickRandom
    /\ width = 5
    /\ height = 5
    /\ grid \in _generate_world(5, 5, {"PLAINS"})
    /\ entities \in SocializeRosters
    /\ time = 0
    /\ climate \in ClimateInit
    /\ pc = "idle"
    /\ idx = 1
    /\ gathered = <<>>
    /\ tickStart = grid
    /\ log = <<>>
    /\ calls = 0
    /\ lastOp = "World.add_entity"

NextNearby == NearbyStep

SpecNearby == InitNearby /\ [][NextNearby]_vars

\* the squared distance between entities i and j
Apart(i, j) ==
    (entities[i].position.x - entities[j].position.x)
        * (entities[i].position.x - entities[j].position.x)
    + (entities[i].position.y - entities[j].position.y)
        * (entities[i].position.y - entities[j].position.y)

\* C23: get_nearby_entities returns exactly the other entities with
\* dx^2 + dy^2 <= radius^2, in list order: it never contains the entity asked
\* about, it includes another entity on the same position, and it includes an
\* entity whose distance is exactly equal to the radius.
C23_NearbyEntities ==
    lastOp = "World.get_nearby_entities" =>
        LET i == log[1].entity
            radius == log[1].radius
            nearby == log[1].nearby
        IN  /\ { nearby[k] : k \in 1..Len(nearby) }
                  = { j \in 1..Len(entities) :
                        j # i /\ Apart(i, j) <= radius * radius }
            /\ \A k \in 1..Len(nearby) : \A l \in 1..Len(nearby) :
                  k < l => nearby[k] < nearby[l]
            /\ \A k \in 1..Len(nearby) : nearby[k] # i
            /\ \A j \in 1..Len(entities) :
                  (j # i /\ entities[j].position = entities[i].position) =>
                      \E k \in 1..Len(nearby) : nearby[k] = j
            /\ \A j \in 1..Len(entities) :
                  (j # i /\ Apart(i, j) = radius * radius) =>
                      \E k \in 1..Len(nearby) : nearby[k] = j

\* asked about Alice with radius 3, the world returned Bob at distance exactly
\* 3 and Charlie on her own tile, in that order, and not Dave in the far corner
C23_Witness ==
    /\ lastOp = "World.get_nearby_entities"
    /\ log[1].entity = 1
    /\ log[1].radius = 3
    /\ Apart(1, 2) = 9
    /\ entities[3].position = entities[1].position
    /\ entities[4].position.x = 4
    /\ log[1].nearby = <<2, 3>>

(***************************************************************************)
(* Weather duration                                                        *)
(***************************************************************************)
\* the weather in force has been in force for fewer updates than its duration
DurationInRange ==
    /\ climate.current_weather.duration \in 5..15
    /\ climate.weather_duration >= 0
    /\ climate.weather_duration < climate.current_weather.duration

\* the update that is being made is the one with which the weather expires
Expires == climate.weather_duration + 1 >= climate.current_weather.duration

\* an update samples a new weather when the old one expires and otherwise counts
\* one more update of the same weather
ResamplesOnExpiry ==
    climate' # climate =>
        /\ Expires <=> climate'.weather_duration = 0
        /\ ~Expires => /\ climate'.current_weather = climate.current_weather
                       /\ climate'.weather_duration = climate.weather_duration + 1

\* C24: the weather is resampled only when its duration expires: Climate.update
\* replaces current_weather if and only if the updates since the last sample
\* reach that weather's duration (5 to 15), and otherwise leaves every field of
\* the weather unchanged; after every update
\* 0 <= weather_duration < current_weather.duration.
C24_ResampleOnExpiry == [](DurationInRange) /\ [][ResamplesOnExpiry]_vars

\* a weather of the longest duration, sampled after earlier ones had expired,
\* is in its last update
C24_Witness ==
    /\ lastOp = "Climate.update"
    /\ climate.current_weather.duration = 15
    /\ climate.weather_duration = 14
    /\ climate.day_of_year = 5 + 7 + 14

(***************************************************************************)
(* Shelter durability                                                      *)
(***************************************************************************)
\* every shelter that stands has a durability in (0, 100]
DurabilityInRange ==
    \A i \in 1..Len(entities) :
        entities[i].shelter # NoShelter =>
            /\ entities[i].shelter.durability > 0
            /\ entities[i].shelter.durability <= 100000

\* what the weather in force takes from a shelter in one update
Decay ==
    LET weather == climate.current_weather
    IN  100 + (CASE weather.type \in {"STORM", "SNOW"} -> 400
                 [] weather.type = "RAIN" -> 200
                 [] OTHER -> 0)
            + (weather.wind_speed * 20) \div 1000

\* the WOOD the entity of this turn spent in it, what it gathered set aside
WoodSpent ==
    entities[idx].inventory["WOOD"]
    + (IF "WOOD" \in DOMAIN gathered' THEN gathered'["WOOD"] ELSE 0)
    - entities'[idx].inventory["WOOD"]

\* the update of an entity with a shelter wears the shelter, removes it if
\* nothing is left, and repairs it only when worn below 50 with 2 WOOD at hand
ShelterWearsAndMends ==
    (EntityTurnOfCombined /\ entities[idx].shelter # NoShelter) =>
        LET old == entities[idx].shelter
            new == entities'[idx].shelter
            worn == old.durability - Decay
        IN  /\ Decay > 0
            /\ worn <= 0 =>
                  \/ new = NoShelter
                  \/ new = ShelterState /\ WoodSpent = 5000
            /\ worn > 0 =>
                  /\ new # NoShelter
                  /\ \/ new = [old EXCEPT !.durability = worn] /\ WoodSpent = 0
                     \/ /\ worn < 50000
                        /\ entities[idx].inventory["WOOD"] >= 2000
                        /\ WoodSpent = 2000
                        /\ new.durability = (IF worn + 40000 > 100000 THEN 100000
                                             ELSE worn + 40000)
                        /\ new.last_repair = climate.day_of_year
                        /\ new.quality = old.quality

\* C25: in the durability variant, after every Entity.update an entity with a
\* shelter has 0 < durability <= 100; the shelter decays on every tick; a
\* shelter whose durability falls to 0 or below is removed in the same update;
\* and a repair (only when durability < 50 and WOOD >= 2, costing exactly 2
\* WOOD) raises durability by 40, capped at 100.
C25_DurabilityBounded == [](DurabilityInRange) /\ [][ShelterWearsAndMends]_vars

\* a shelter worn below 50 has just been repaired with the entity's last 2 WOOD
C25_Witness ==
    /\ lastOp = "Entity.update"
    /\ entities[1].shelter # NoShelter
    /\ entities[1].shelter.last_repair = climate.day_of_year
    /\ climate.day_of_year > 0
    /\ entities[1].shelter.durability > 85000
    /\ entities[1].shelter.durability < 90000
    /\ entities[1].current_activity = "SEEKING_SHELTER"
    /\ entities[1].inventory["WOOD"] = 0

\* a shelter worn down to almost nothing has collapsed in a later update
C25_WitnessCollapse ==
    /\ lastOp = "Entity.update"
    /\ calls = 2
    /\ entities[1].energy < -150000
    /\ entities[1].shelter = NoShelter

(***************************************************************************)
(* The clock and the calendar                                              *)
(***************************************************************************)
\* a source with one value for every draw but the choice of the weather type
YearRandom ==
    [decision |-> {900}, amount |-> {500},
     temperature |-> {0}, humidity |-> {0},
     wind |-> {1000}, precipitation |-> {500},
     duration |-> {10}]

MaxTimeYear == 363

\* the update after which the late entity may join
JoinTime == MaxTimeYear - 13

\* World.add_entity between two updates late in the run
add_entity_late(maxEntities, names, traits) ==
    /\ pc = "idle"
    /\ time >= JoinTime
    /\ Len(entities) < maxEntities
    /\ \E p \in Positions(width, height), personality \in Personalities(traits) :
         entities' = Append(entities,
                            Entity(names[Len(entities) + 1], [x |-> p[1], y |-> p[2]],
                                   personality))
    /\ lastOp' = "World.add_entity"
    /\ UNCHANGED <<width, height, grid, time, climate, pc, idx, gathered, tickStart,
                   log, calls, random>>

\* a one-tile world that runs empty for most of a year, is joined by one entity
\* and runs on into the next year
InitYear == WorldInit({<<1, 1>>}, {"FOREST", "DESERT"}, YearRandom)

NextYear ==
    \/ add_entity_late(1, Names, {100, 900})
    \/ WorldUpdateBegin(MaxTimeYear)
    \/ WorldUpdateEntity
    \/ WorldUpdateEnd

SpecYear == InitYear /\ [][NextYear]_vars

\* the calendar shows the tick counter modulo the length of the year
CalendarFollowsClock == climate.day_of_year = time % 360

\* the counter moves only when a World.update begins, and then by one
ClockAdvancesByOne ==
    /\ TickBegins => time' = time + 1
    /\ ~TickBegins => time' = time

\* C26: climate.day_of_year = time mod 360 after any number of World.update
\* calls, and each World.update increases time by exactly 1.
C26_CalendarFollowsClock == [](CalendarFollowsClock) /\ [][ClockAdvancesByOne]_vars

\* the 362nd update has returned, the entity that joined late has had its turns,
\* and the calendar shows day 2 of the second year
C26_Witness ==
    /\ pc = "idle"
    /\ time = 362
    /\ climate.day_of_year = 2
    /\ climate.current_season = "SPRING"
    /\ Len(entities) = 1
    /\ entities[1].energy < 100000

(***************************************************************************)
(* Tile occupancy                                                          *)
(***************************************************************************)
\* the tile at the position of entity i
TileAt(i) == <<entities[i].position.x, entities[i].position.y>>

\* every registered entity is in the set of the tile it stands on and in no
\* other, and the sets hold nothing else
OccupancyConsistent ==
    /\ \A i \in 1..Len(entities) :
          /\ TileAt(i) \in DOMAIN grid
          /\ \A p \in DOMAIN grid : i \in grid[p].entities <=> p = TileAt(i)
    /\ \A p \in DOMAIN grid : grid[p].entities \subseteq 1..Len(entities)

\* the entity whose turn comes next is in the set it is about to be removed from
RemovalFinds ==
    (pc = "entities" /\ idx <= Len(entities)) => idx \in grid[TileAt(idx)].entities

\* C27: in src/combined.py the occupancy sets are consistent with the positions:
\* after add_entity and after every World.update each registered entity is in
\* the entity set of exactly the tile at its position and of no other, and the
\* removal at the start of its turn never fails for an in-bounds entity.
C27_OccupancyConsistent ==
    /\ OccupancyConsistent
    /\ RemovalFinds
    /\ pc # "raised"

\* both entities have moved in the second update, away from the tile they
\* shared, and each is in the set of its own tile
C27_Witness ==
    /\ pc = "idle"
    /\ calls = 2
    /\ Len(entities) = 2
    /\ tickStart[<<1, 0>>].entities = {1, 2}
    /\ grid[<<0, 0>>].entities = {1}
    /\ grid[<<1, 0>>].entities = {}
    /\ grid[<<2, 0>>].entities = {2}

(***************************************************************************)
(* Energy in src/combined.py                                               *)
(***************************************************************************)
\* no step raises an entity's energy, and its own update takes at least 1
EnergyOnlyFalls ==
    /\ \A i \in 1..Len(entities) : entities'[i].energy <= entities[i].energy
    /\ EntityTurnOfCombined => entities'[idx].energy <= entities[idx].energy - 1000

\* an update that leaves the entity below 20 has not drawn a new activity: the
\* activity is the old one or SEEKING_SHELTER, it is SEEKING_SHELTER if the
\* entity has no shelter, in which case nothing is gathered, and an entity that
\* was seeking shelter still is
ExhaustedSeeksShelter ==
    (EntityTurnOfCombined /\ entities'[idx].energy < 20000) =>
        /\ entities'[idx].current_activity
              \in {entities[idx].current_activity, "SEEKING_SHELTER"}
        /\ DecayedShelter = NoShelter =>
              /\ entities'[idx].current_activity = "SEEKING_SHELTER"
              /\ gathered' = <<>>
              /\ \A r \in ResourceType :
                    entities'[idx].inventory[r] <= entities[idx].inventory[r]
        /\ entities[idx].current_activity = "SEEKING_SHELTER" =>
              /\ entities'[idx].current_activity = "SEEKING_SHELTER"
              /\ gathered' = <<>>

\* C28: in src/combined.py energy never recovers: every Entity.update lowers
\* energy by at least 1 and nothing raises it; once energy is below 20 every
\* later update takes the seek_shelter branch and never calls choose_activity;
\* an entity without shelter in that state has current_activity SEEKING_SHELTER
\* from then on and never gathers again.
C28_EnergyNeverRecovers == [][EnergyOnlyFalls /\ ExhaustedSeeksShelter]_vars

\* an entity that drew BUILDING in the first update fell below 20 in the second
\* and has sought shelter, without one, in the second and the third; the tile
\* has lost nothing
C28_Witness ==
    /\ lastOp = "Entity.update"
    /\ calls = 3
    /\ entities[1].energy = 14000
    /\ entities[1].current_activity = "SEEKING_SHELTER"
    /\ entities[1].shelter = NoShelter
    /\ entities[1].inventory["WOOD"] = 5000
    /\ grid[<<0, 0>>].resources["WOOD"] = 8000

(***************************************************************************)
(* Shelter and position in src/complete.py                                 *)
(***************************************************************************)
\* an entity that has a shelter keeps it
ShelterKept ==
    \A i \in 1..Len(entities) : entities[i].has_shelter => entities'[i].has_shelter

\* an entity comes by a shelter only in its own turn, executing SEEKING_SHELTER,
\* and pays 10 WOOD for it
ShelterPaidFor ==
    \A i \in 1..Len(entities) :
        (~entities[i].has_shelter /\ entities'[i].has_shelter) =>
            /\ EntityTurn
            /\ i = idx
            /\ entities'[i].current_activity = "SEEKING_SHELTER"
            /\ entities[i].inventory["WOOD"] >= 10000
            /\ entities'[i].inventory["WOOD"] = entities[i].inventory["WOOD"] - 10000
            /\ \A r \in ResourceType \ {"WOOD"} :
                  entities'[i].inventory[r] = entities[i].inventory[r]

\* every entity stays where it is
PositionsKept ==
    \A i \in 1..Len(entities) : entities'[i].position = entities[i].position

\* C29: in src/complete.py has_shelter, once true, is never false again; it
\* becomes true only through a SEEKING_SHELTER execution that consumes exactly
\* 10 WOOD; and no World.update changes any entity's position.
C29_ShelterIsForGood == [][ShelterKept /\ ShelterPaidFor /\ PositionsKept]_vars

\* Alice took shelter for the 10 WOOD she had gathered and still has it updates later
C29_Witness ==
    /\ pc = "idle"
    /\ time = MaxTime
    /\ Len(entities) = 2
    /\ entities[1].has_shelter
    /\ entities[1].current_activity # "SEEKING_SHELTER"
    /\ ~entities[2].has_shelter

(***************************************************************************)
(* Regeneration never takes                                                *)
(***************************************************************************)
\* the stock of resource r on the tile, now and when the last call began
Stock(r) == grid[<<0, 0>>].resources[r]

StockBefore(r) == tickStart[<<0, 0>>].resources[r]

\* C30: regenerate_resources never decreases a stock; a stock at the biome's
\* maximum is left unchanged; and a resource type whose biome maximum is 0
\* stays at 0 forever, whatever is gathered and regenerated.
C30_RegenerationNeverTakes ==
    /\ lastOp = "Tile.regenerate_resources" =>
          \A r \in ResourceType :
              /\ Stock(r) >= StockBefore(r)
              /\ StockBefore(r) = biome_max(grid[<<0, 0>>], r) => Stock(r) = StockBefore(r)
    /\ \A r \in ResourceType :
          biome_max(grid[<<0, 0>>], r) = 0 => Stock(r) = 0

\* a regeneration of a forest tile after two gatherings has raised the FOOD,
\* left the WOOD, from which nothing had been taken, at its maximum, and left
\* the STONE, which a forest lacks, at 0
C30_Witness ==
    /\ lastOp = "Tile.regenerate_resources"
    /\ calls = 3
    /\ grid[<<0, 0>>].biome = "FOREST"
    /\ StockBefore("WOOD") = 100000
    /\ Stock("WOOD") = 100000
    /\ StockBefore("FOOD") < 40000
    /\ Stock("FOOD") > StockBefore("FOOD")
    /\ Stock("STONE") = 0

====
